---- MODULE Spec2Model ----
(***************************************************************************)
(* A model of src/discord/ha_bot/discord_ha_bot.py: the Discord -> Home    *)
(* Assistant bridge (HABot).  Text is kept as TLA+ strings in the state    *)
(* and handled character by character (S / Str) by the text helpers, so    *)
(* that normalisation, argument parsing, member splitting and numeric      *)
(* suffix expansion are computed the way the Python code computes them.    *)
(***************************************************************************)
EXTENDS Integers, Sequences, FiniteSets, TLC

(* ------------------------------------------------------------------ *)
(* Characters and strings                                              *)
(* ------------------------------------------------------------------ *)

\* a string as the sequence of its one-character strings, and back
S(str) == [i \in 1..Len(str) |-> SubSeq(str, i, i)]

RECURSIVE Str(_)
Str(cs) == IF cs = <<>> THEN "" ELSE Head(cs) \o Str(Tail(cs))

UpperChars == S("ABCDEFGHIJKLMNOPQRSTUVWXYZ")
LowerChars == S("abcdefghijklmnopqrstuvwxyz")
DigitChars == S("0123456789")

LowerSet == {LowerChars[i] : i \in 1..26}
DigitSet == {DigitChars[i] : i \in 1..10}
\* str.strip() / \s of the re module, over the characters the model uses
WhiteSpace == {" ", "\t", "\n"}

\* str.lower() on one character
LowerChar(c) ==
    IF \E i \in 1..26 : UpperChars[i] = c
    THEN LowerChars[CHOOSE i \in 1..26 : UpperChars[i] = c]
    ELSE c

LowerSeq(cs) == [i \in 1..Len(cs) |-> LowerChar(cs[i])]

\* str.lower()
Lower(str) == Str(LowerSeq(S(str)))

RECURSIVE LStripSeq(_)
LStripSeq(cs) ==
    IF cs # <<>> /\ Head(cs) \in WhiteSpace THEN LStripSeq(Tail(cs)) ELSE cs

RECURSIVE RStripSeq(_)
RStripSeq(cs) ==
    IF cs # <<>> /\ cs[Len(cs)] \in WhiteSpace
    THEN RStripSeq(SubSeq(cs, 1, Len(cs) - 1))
    ELSE cs

StripSeq(cs) == RStripSeq(LStripSeq(cs))

\* str.strip()
Strip(str) == Str(StripSeq(S(str)))

\* str.startswith(prefix)
StartsWithSeq(cs, ps) == Len(ps) <= Len(cs) /\ SubSeq(cs, 1, Len(ps)) = ps
StartsWith(str, prefix) == StartsWithSeq(S(str), S(prefix))

\* the `in` operator on two strings (substring test)
ContainsSeq(cs, ps) ==
    \E i \in 0..(Len(cs) - Len(ps)) : SubSeq(cs, i + 1, i + Len(ps)) = ps
Contains(str, part) == ContainsSeq(S(str), S(part))

\* text[n:]
DropSeq(cs, n) == SubSeq(cs, n + 1, Len(cs))

\* str.split(sep) / re.split on single separator characters: cuts at every
\* separator character and keeps the empty pieces
RECURSIVE SplitAcc(_, _, _, _)
SplitAcc(cs, seps, cur, acc) ==
    IF cs = <<>> THEN Append(acc, cur)
    ELSE IF Head(cs) \in seps
         THEN SplitAcc(Tail(cs), seps, <<>>, Append(acc, cur))
         ELSE SplitAcc(Tail(cs), seps, Append(cur, Head(cs)), acc)

SplitSeq(cs, seps) == SplitAcc(cs, seps, <<>>, <<>>)

\* re.sub(r"[<set>]+", repl, text): every maximal run of characters of the
\* set becomes the one character repl
RECURSIVE CollapseRuns(_, _, _)
CollapseRuns(cs, set, repl) ==
    IF cs = <<>> THEN <<>>
    ELSE IF Head(cs) \in set
         THEN <<repl>> \o CollapseRuns(
                  SubSeq(cs, (CHOOSE k \in 1..Len(cs) :
                                 /\ \A j \in 1..k : cs[j] \in set
                                 /\ k = Len(cs) \/ cs[k + 1] \notin set) + 1,
                         Len(cs)),
                  set, repl)
         ELSE <<Head(cs)>> \o CollapseRuns(Tail(cs), set, repl)

\* the elements of a sequence that are not the empty sequence
NonEmptyPieces(pieces) == SelectSeq(pieces, LAMBDA p : p # <<>>)

\* a sequence of character sequences as a sequence of strings
StrEach(pieces) == [i \in 1..Len(pieces) |-> Str(pieces[i])]

(* ------------------------------------------------------------------ *)
(* Helpers: storage & text                                             *)
(* ------------------------------------------------------------------ *)

\* lowercase, then drop only the first character that is not [a-z0-9]
NormalizeSeqFirstOnly(cs) ==
    LET l == LowerSeq(cs)
        bad == {i \in 1..Len(l) : l[i] \notin LowerSet \cup DigitSet}
    IN IF bad = {} THEN l
       ELSE LET k == CHOOSE i \in bad : \A j \in bad : i <= j
            IN SubSeq(l, 1, k - 1) \o SubSeq(l, k + 1, Len(l))

\* normalize_name on characters: lowercase, drop all non [a-z0-9]
NormalizeSeq(cs) ==
    SelectSeq(LowerSeq(cs), LAMBDA c : c \in LowerSet \cup DigitSet)

\* normalize_name(s)
normalize_name(s) == Str(NormalizeSeq(S(s)))

\* index of the first occurrence of character q in cs at or after position
\* from, 0 when there is none
FirstIndexFrom(cs, q, from) ==
    IF \E k \in from..Len(cs) : cs[k] = q
    THEN CHOOSE k \in from..Len(cs) :
             cs[k] = q /\ \A j \in from..(k - 1) : cs[j] # q
    ELSE 0

\* index of the first whitespace character of cs, Len(cs) + 1 when none
FirstSpace(cs) ==
    IF \E k \in 1..Len(cs) : cs[k] \in WhiteSpace
    THEN CHOOSE k \in 1..Len(cs) :
             cs[k] \in WhiteSpace /\ \A j \in 1..(k - 1) : cs[j] \notin WhiteSpace
    ELSE Len(cs) + 1

\* parse_quoted_name(rest): none is TRUE where the code returns None as name
parse_quoted_name(rest) ==
    LET r == StripSeq(S(rest)) IN
    IF r = <<>> THEN [none |-> TRUE, name |-> "", remainder |-> ""]
    ELSE IF r[1] \in {"'", "\""}
    THEN LET k == FirstIndexFrom(r, r[1], 2) IN
         IF k # 0
         THEN [none |-> FALSE,
               name |-> Str(StripSeq(SubSeq(r, 2, k - 1))),
               remainder |-> Str(StripSeq(DropSeq(r, k)))]
         ELSE [none |-> FALSE,
               name |-> Str(StripSeq(DropSeq(r, 1))),
               remainder |-> ""]
    ELSE LET k == FirstSpace(r) IN
         [none |-> FALSE,
          name |-> Str(SubSeq(r, 1, k - 1)),
          remainder |-> Str(StripSeq(DropSeq(r, k - 1)))]

\* split_members(text)
split_members(text) ==
    LET cleaned == CollapseRuns(StripSeq(S(text)), WhiteSpace \cup {","}, " ")
    IN StrEach(NonEmptyPieces(SplitSeq(cleaned, {" "})))

(* ------------------------------------------------------------------ *)
(* Numeric suffix expansion                                            *)
(* ------------------------------------------------------------------ *)

\* \w of the re module (word characters), for the \b word boundaries
WordChars == LowerSet \cup DigitSet \cup {UpperChars[i] : i \in 1..26} \cup {"_"}

\* the character class [0-9 ,\-andto] under re.IGNORECASE
NumsClass == DigitSet \cup {" ", ",", "-", "a", "n", "d", "t", "o",
                            "A", "N", "D", "T", "O"}

\* int(token) for a token of digits
RECURSIVE DigitsToInt(_)
DigitsToInt(cs) ==
    IF cs = <<>> THEN 0
    ELSE 10 * DigitsToInt(SubSeq(cs, 1, Len(cs) - 1))
         + ((CHOOSE i \in 1..10 : DigitChars[i] = cs[Len(cs)]) - 1)

\* str(n) for n >= 0, as characters
RECURSIVE IntToDigits(_)
IntToDigits(n) ==
    IF n < 10 THEN <<DigitChars[n + 1]>>
    ELSE IntToDigits(n \div 10) \o <<DigitChars[(n % 10) + 1]>>

\* str.isdigit()
IsDigits(cs) == cs # <<>> /\ \A i \in 1..Len(cs) : cs[i] \in DigitSet

\* re.sub(r"\b<word>\b", repl, text, flags=re.IGNORECASE), scanning from
\* position p of cs
RECURSIVE SubWordFrom(_, _, _, _)
SubWordFrom(cs, p, word, repl) ==
    IF p > Len(cs) THEN <<>>
    ELSE IF /\ p + Len(word) - 1 <= Len(cs)
            /\ LowerSeq(SubSeq(cs, p, p + Len(word) - 1)) = word
            /\ (p = 1 \/ cs[p - 1] \notin WordChars)
            /\ (p + Len(word) > Len(cs) \/ cs[p + Len(word)] \notin WordChars)
         THEN repl \o SubWordFrom(cs, p + Len(word), word, repl)
         ELSE <<cs[p]>> \o SubWordFrom(cs, p + 1, word, repl)

SubWord(cs, word, repl) == SubWordFrom(cs, 1, S(word), S(repl))

\* a token "a-b" of the numeric expression: range(start, end + 1) when both
\* sides are digits, nothing otherwise
RangeNumbers(a, b) ==
    IF IsDigits(a) /\ IsDigits(b)
    THEN {n \in DigitsToInt(a)..DigitsToInt(b) : TRUE}
    ELSE {}

\* token.split("-", 1) at the first hyphen, position k
SplitRange(tok, k) ==
    RangeNumbers(StripSeq(SubSeq(tok, 1, k - 1)), StripSeq(DropSeq(tok, k)))

\* the integers one token of the numeric expression contributes
TokenNumbers(tok) ==
    IF \E i \in 1..Len(tok) : tok[i] = "-"
    THEN SplitRange(tok, FirstIndexFrom(tok, "-", 1))
    ELSE IF IsDigits(tok) THEN {DigitsToInt(tok)} ELSE {}

\* the set `numbers` after the loop over the tokens
TokensNumbers(tokens) ==
    UNION {TokenNumbers(StripSeq(tokens[k])) : k \in 1..Len(tokens)}

\* the two re.sub calls and the re.split(r"[,\s]+", nums_part) loop
NumbersOf(nums_part) ==
    TokensNumbers(NonEmptyPieces(SplitSeq(
        SubWord(SubWord(nums_part, "and", ","), "to", "-"),
        WhiteSpace \cup {","})))

\* sorted(numbers)
RECURSIVE SortedSeq(_)
SortedSeq(nums) ==
    IF nums = {} THEN <<>>
    ELSE SortedSeq(nums \ {CHOOSE x \in nums : \A y \in nums : y <= x})
         \o <<CHOOSE x \in nums : \A y \in nums : y <= x>>

\* text[i+1 .. i+j] is whitespace and the rest, not empty, is in the class
SuffixAt(t, i, j) ==
    /\ \A k \in (i + 1)..(i + j) : t[k] \in WhiteSpace
    /\ i + j < Len(t)
    /\ \A k \in (i + j + 1)..Len(t) : t[k] \in NumsClass

\* the lengths i of group 1 for which
\* re.match(r"(.+?)\s+([0-9 ,\-andto]+)$", text) can succeed
SuffixSplits(t) ==
    {i \in 1..(Len(t) - 2) :
        /\ \A k \in 1..i : t[k] # "\n"
        /\ \E j \in 1..(Len(t) - i - 1) : SuffixAt(t, i, j)}

\* \s+ is greedy: the longest whitespace run after group 1 that still leaves
\* a non-empty numeric expression
GreedySpace(t, i) ==
    CHOOSE x \in 1..(Len(t) - i - 1) :
        /\ SuffixAt(t, i, x)
        /\ \A y \in (x + 1)..(Len(t) - i - 1) : ~ SuffixAt(t, i, y)

\* [f"{base} {n}" for n in sorted(numbers)]
Phrases(base, sorted) ==
    [k \in 1..Len(sorted) |-> Str(base \o <<" ">> \o IntToDigits(sorted[k]))]

\* the end of expand_numbers_suffix without its test for an empty set
ExpandNumbersUnguarded(t, base, numbers) == Phrases(base, SortedSeq(numbers))

\* the end of expand_numbers_suffix, once the numbers are collected
ExpandNumbers(t, base, numbers) ==
    IF numbers = {} THEN <<Str(t)>> ELSE Phrases(base, SortedSeq(numbers))

\* the match with group 1 of length i: base and nums_part
ExpandAt(t, i) ==
    ExpandNumbers(t, StripSeq(SubSeq(t, 1, i)),
                  NumbersOf(DropSeq(t, i + GreedySpace(t, i))))

\* re.match: the non-greedy group 1 takes the shortest length that matches
ExpandMatch(t, splits) ==
    IF splits = {} THEN <<Str(t)>>
    ELSE ExpandAt(t, CHOOSE x \in splits : \A y \in splits : x <= y)

\* expand_numbers_suffix on the stripped text
ExpandText(t) ==
    IF ~ \E x \in {",", " and ", "-", " to "} : ContainsSeq(t, S(x))
    THEN <<Str(t)>>
    ELSE ExpandMatch(t, SuffixSplits(t))

\* HABot.expand_numbers_suffix(raw_target)
expand_numbers_suffix(raw_target) == ExpandText(StripSeq(S(raw_target)))

(* ------------------------------------------------------------------ *)
(* Program constants and state                                         *)
(* ------------------------------------------------------------------ *)

\* Python's None, where the code can hold it in place of a string
None == "<None>"

\* `if x:` on a value that is a string or None
Truthy(x) == x # None /\ x # ""

\* the channel the bot listens in (an id, compared for equality only)
COMMANDS_CHANNEL_ID == "1436397465187258509"

\* domains _resolve_against_ha prefers
preferred_domains == {"light", "switch", "fan"}

VARIABLES
    ALLOWED_USER_IDS,  \* module constant read from the environment at start
    DEFAULT_CONFIG,    \* module-level dict; its inner dicts are shared by copies
    cfg,               \* self.cfg
    cfg_shared,        \* self.cfg's inner dicts are DEFAULT_CONFIG's inner dicts
    disk,              \* the file at CONFIG_PATH
    alias_lookup,      \* self.alias_lookup: normalized -> [pretty, ent]
    group_lookup,      \* self.group_lookup: normalized -> [pretty, members]
    entities,          \* self.entities
    exact_index,       \* self.exact_index: normalized -> entity_id
    ready,             \* on_ready has run at least once
    msg,               \* the inbound message the last handler was given
    fetched,           \* the backend's answer to the last catalog read
    expanded_names,    \* on_message's local of the last dispatch
    successes,         \* on_message's local of the last dispatch
    failures,          \* on_message's local of the last dispatch
    calls,             \* the send_webhook calls the last handler made
    reply,             \* the lines of the message the last handler sent
    sent,              \* the last handler sent a message to the channel
    raised,            \* the exception the last handler ended with, "" if none
    handled,           \* number of events handled so far
    tasks              \* the event loop: on_message coroutines queued, running
                       \* and suspended at an await

dirVars == <<DEFAULT_CONFIG, cfg, cfg_shared, disk, alias_lookup, group_lookup>>
catVars == <<entities, exact_index>>
outVars == <<msg, expanded_names, successes, failures, calls, reply, sent, raised>>
vars == <<ALLOWED_USER_IDS, dirVars, catVars, ready, fetched, outVars, handled, tasks>>

(* ------------------------------------------------------------------ *)
(* Python dicts (insertion ordered) as sequences of [k, v] entries     *)
(* ------------------------------------------------------------------ *)

DictKeys(d) == [i \in 1..Len(d) |-> d[i].k]
DictHas(d, key) == \E i \in 1..Len(d) : d[i].k = key
DictGet(d, key) == d[CHOOSE i \in 1..Len(d) : d[i].k = key].v

\* d[key] = val: an existing key keeps its position, a new key goes last
DictSet(d, key, val) ==
    IF DictHas(d, key)
    THEN [i \in 1..Len(d) |-> IF d[i].k = key THEN [k |-> key, v |-> val] ELSE d[i]]
    ELSE Append(d, [k |-> key, v |-> val])

\* del d[key]
DictDel(d, key) == SelectSeq(d, LAMBDA e : e.k # key)

\* a dict used only through `in` and [] as a function on its key set
RECURSIVE AsLookup(_)
AsLookup(d) ==
    IF d = <<>> THEN <<>>
    ELSE LET rest == AsLookup(SubSeq(d, 1, Len(d) - 1))
             last == d[Len(d)]
         IN [x \in DOMAIN rest \cup {last.k} |-> IF x = last.k THEN last.v ELSE rest[x]]

EmptyDict == <<>>
EmptyCfg == [aliases |-> EmptyDict, groups |-> EmptyDict]

(* ------------------------------------------------------------------ *)
(* The config file                                                     *)
(* ------------------------------------------------------------------ *)

\* no file at CONFIG_PATH
FileMissing == [kind |-> "missing", aliases |-> EmptyDict, groups |-> EmptyDict]
\* a file json.load fails on (empty, truncated or otherwise not JSON)
FileMalformed == [kind |-> "malformed", aliases |-> EmptyDict, groups |-> EmptyDict]
\* the file json.dump(cfg, f, indent=2) writes: a function of the dict's
\* entries and their order
FileOf(c) == [kind |-> "json", aliases |-> c.aliases, groups |-> c.groups]

\* load_config(): the value returned and whether it is DEFAULT_CONFIG.copy(),
\* a shallow copy that shares DEFAULT_CONFIG's inner dicts
load_config(d, dflt) ==
    IF d.kind = "json"
    THEN [cfg |-> [aliases |-> d.aliases, groups |-> d.groups], shared |-> FALSE]
    ELSE [cfg |-> dflt, shared |-> TRUE]

\* what save_config(cfg) can do: write the file; fail to open it (file as it
\* was); or fail after open(..., "w") truncated it
SaveOutcomes == {"ok", "open_error", "write_error"}

\* save_config(cfg) under outcome o: the file afterwards
save_config(c, d, o) ==
    CASE o = "ok" -> FileOf(c)
      [] o = "open_error" -> d
      [] o = "write_error" -> FileMalformed

\* rebuild_lookups_from_cfg: self.alias_lookup afterwards
RECURSIVE LookupOf(_)
LookupOf(d) ==
    IF d = <<>> THEN <<>>
    ELSE LET rest == LookupOf(SubSeq(d, 1, Len(d) - 1))
             last == d[Len(d)]
             norm == normalize_name(last.k)
         IN IF norm = "" THEN rest
            ELSE [x \in DOMAIN rest \cup {norm} |->
                     IF x = norm THEN [pretty |-> last.k, v |-> last.v] ELSE rest[x]]

rebuild_alias_lookup(c) == LookupOf(c.aliases)
rebuild_group_lookup(c) == LookupOf(c.groups)

(* ------------------------------------------------------------------ *)
(* HA indexing                                                         *)
(* ------------------------------------------------------------------ *)

\* one element of the JSON list GET /api/states returns; entity_id and
\* friendly_name are None where the key is absent (or null), and is_dict is
\* FALSE for an element that is not a JSON object
HAItem(entity_id, friendly_name) ==
    [is_dict |-> TRUE, entity_id |-> entity_id, friendly_name |-> friendly_name]
HAJunk == [is_dict |-> FALSE, entity_id |-> None, friendly_name |-> None]

\* f[key] = val on a dict used as a lookup
LookupSet(f, key, val) ==
    [x \in DOMAIN f \cup {key} |-> IF x = key THEN val ELSE f[x]]

\* the loop body of build_entity_index cannot process the item: item.get on
\* a non-dict, or normalize_name(None) when neither id nor name is given
ItemRaises(item) ==
    \/ ~ item.is_dict
    \/ (~ Truthy(item.friendly_name)) /\ item.entity_id = None

\* friendly = attrs.get("friendly_name", entity_id) or entity_id
ItemFriendly(item) ==
    IF Truthy(item.friendly_name) THEN item.friendly_name ELSE item.entity_id

\* entity_id.split(".", 1)[0] if entity_id and "." in entity_id else ""
DomainOf(entity_id) ==
    IF Truthy(entity_id) /\ Contains(entity_id, ".")
    THEN Str(SubSeq(S(entity_id), 1, FirstIndexFrom(S(entity_id), ".", 1) - 1))
    ELSE ""

\* the ent dict the loop body appends
EntOf(item) ==
    [entity_id |-> item.entity_id,
     friendly |-> ItemFriendly(item),
     norm_friendly |-> normalize_name(ItemFriendly(item)),
     norm_entity |-> normalize_name(IF Truthy(item.entity_id) THEN item.entity_id ELSE ""),
     domain |-> DomainOf(item.entity_id)]

\* self.exact_index after the loop body has run for ent
IndexWith(index, ent) ==
    LET i1 == IF ent.norm_friendly # ""
              THEN LookupSet(index, ent.norm_friendly, ent.entity_id) ELSE index
    IN IF ent.norm_entity # ""
       THEN LookupSet(i1, ent.norm_entity, ent.entity_id) ELSE i1

\* the for loop of build_entity_index over data, starting from the cleared
\* self.entities / self.exact_index; it stops at the first item that raises
RECURSIVE IndexLoop(_, _, _)
IndexLoop(data, ents, index) ==
    IF data = <<>> THEN [entities |-> ents, exact_index |-> index, raised |-> ""]
    ELSE IF ItemRaises(Head(data))
         THEN [entities |-> ents, exact_index |-> index, raised |-> "AttributeError"]
         ELSE IndexLoop(Tail(data), Append(ents, EntOf(Head(data))),
                        IndexWith(index, EntOf(Head(data))))

\* HABot.build_entity_index() when the backend answers with fetch: the
\* catalog afterwards and the exception raised ("" if none)
build_entity_index(fetch, ents, index) ==
    CASE fetch.kind = "unreachable" ->
             [entities |-> ents, exact_index |-> index, raised |-> "ConnectionError"]
      [] fetch.kind = "bad_status" ->
             [entities |-> ents, exact_index |-> index, raised |-> "HTTPError"]
      [] fetch.kind = "bad_json" ->
             [entities |-> ents, exact_index |-> index, raised |-> "JSONDecodeError"]
      [] fetch.kind = "ok" -> IndexLoop(fetch.data, <<>>, <<>>)

(* ------------------------------------------------------------------ *)
(* Resolution                                                          *)
(* ------------------------------------------------------------------ *)

\* [t for t in re.split(r"\s+", name.lower()) if t]
TokensOf(name) == NonEmptyPieces(SplitSeq(LowerSeq(S(name)), WhiteSpace))

\* the entities whose lower-cased friendly name contains every token
TokenCandidates(tokens) ==
    SelectSeq(entities, LAMBDA e :
        \A i \in 1..Len(tokens) : ContainsSeq(LowerSeq(S(e.friendly)), tokens[i]))

\* the end of the token-based pass
TokenResult(token_candidates) ==
    IF Len(token_candidates) = 1
    THEN [ent |-> token_candidates[1].entity_id, cands |-> token_candidates]
    ELSE [ent |-> None, cands |-> token_candidates]

\* token-based pass, taken only when the contains pass left no candidates
ResolveTokens(candidates, tokens) ==
    IF candidates = <<>> /\ tokens # <<>>
    THEN TokenResult(TokenCandidates(tokens))
    ELSE [ent |-> None, cands |-> candidates]

\* the contains-based pass without the return of a single preferred entity
ResolvePreferredNoSingle(name, contains, preferred) ==
    ResolveTokens(IF contains # <<>> /\ Len(preferred) >= 1
                  THEN preferred ELSE contains,
                  TokensOf(name))

\* preferred-domain narrowing of the contains-based candidates
ResolvePreferred(name, contains, preferred) ==
    IF contains # <<>> /\ Len(preferred) = 1
    THEN [ent |-> preferred[1].entity_id, cands |-> preferred]
    ELSE ResolveTokens(IF contains # <<>> /\ Len(preferred) > 1
                       THEN preferred ELSE contains,
                       TokensOf(name))

\* contains-based pass
ResolveContains(name, contains) ==
    ResolvePreferred(name, contains,
        SelectSeq(contains, LAMBDA e : e.domain \in preferred_domains))

\* _resolve_against_ha after norm_input = normalize_name(name)
ResolveNorm(name, norm_input) ==
    IF norm_input = "" THEN [ent |-> None, cands |-> <<>>]
    ELSE IF norm_input \in DOMAIN exact_index
    THEN [ent |-> exact_index[norm_input], cands |-> <<>>]
    ELSE ResolveContains(name,
             SelectSeq(entities, LAMBDA e :
                 \/ Contains(e.norm_friendly, norm_input)
                 \/ Contains(e.norm_entity, norm_input)))

\* HABot._resolve_against_ha(name): [ent, cands]
resolve_against_ha(name) == ResolveNorm(name, normalize_name(name))

\* list(dict.fromkeys(xs)): de-dupe, preserve order
RECURSIVE Dedupe(_)
Dedupe(xs) ==
    IF xs = <<>> THEN <<>>
    ELSE IF \E i \in 1..(Len(xs) - 1) : xs[i] = xs[Len(xs)]
         THEN Dedupe(SubSeq(xs, 1, Len(xs) - 1))
         ELSE Append(Dedupe(SubSeq(xs, 1, Len(xs) - 1)), xs[Len(xs)])

\* `if ent: expanded.append(ent)`
IfTruthy(ent) == IF Truthy(ent) THEN <<ent>> ELSE <<>>

\* what one group member m contributes to `expanded`, mn its normalized name
ExpandMemberNorm(m, mn) ==
    IF mn \in DOMAIN alias_lookup THEN <<alias_lookup[mn].v>>
    ELSE IF Contains(m, ".") THEN <<m>>
    ELSE IfTruthy(resolve_against_ha(m).ent)

ExpandMember(m) == ExpandMemberNorm(m, normalize_name(m))

RECURSIVE ExpandMembers(_)
ExpandMembers(members) ==
    IF members = <<>> THEN <<>>
    ELSE ExpandMember(Head(members)) \o ExpandMembers(Tail(members))

\* the last step of resolve_single_target: resolve against HA
FromHA(r) == [entity_ids |-> IfTruthy(r.ent), candidates |-> r.cands]

\* resolve_single_target going on to aliases and the catalog when the group
\* expands to nothing
ResolveTargetFallThrough(target_name, norm) ==
    IF norm \in DOMAIN group_lookup
       /\ ExpandMembers(group_lookup[norm].v) # <<>>
    THEN [entity_ids |-> Dedupe(ExpandMembers(group_lookup[norm].v)),
          candidates |-> <<>>]
    ELSE IF norm \in DOMAIN alias_lookup
    THEN [entity_ids |-> <<alias_lookup[norm].v>>, candidates |-> <<>>]
    ELSE FromHA(resolve_against_ha(target_name))

\* resolve_single_target with the alias test before the group test
ResolveTargetAliasFirst(target_name, norm) ==
    IF norm \in DOMAIN alias_lookup
    THEN [entity_ids |-> <<alias_lookup[norm].v>>, candidates |-> <<>>]
    ELSE IF norm \in DOMAIN group_lookup
    THEN [entity_ids |-> Dedupe(ExpandMembers(group_lookup[norm].v)),
          candidates |-> <<>>]
    ELSE FromHA(resolve_against_ha(target_name))

\* resolve_single_target after norm = normalize_name(target_name)
ResolveTarget(target_name, norm) ==
    IF norm \in DOMAIN group_lookup
    THEN [entity_ids |-> Dedupe(ExpandMembers(group_lookup[norm].v)),
          candidates |-> <<>>]
    ELSE IF norm \in DOMAIN alias_lookup
    THEN [entity_ids |-> <<alias_lookup[norm].v>>, candidates |-> <<>>]
    ELSE FromHA(resolve_against_ha(target_name))

\* HABot.resolve_single_target(target_name): [entity_ids, candidates]
resolve_single_target(target_name) ==
    ResolveTarget(target_name, normalize_name(target_name))

(* ------------------------------------------------------------------ *)
(* Replies                                                             *)
(* ------------------------------------------------------------------ *)

\* one line of a reply: what kind of line it is and the values formatted
\* into it
Line(kind, name, eid, status, cands) ==
    [kind |-> kind, name |-> name, eid |-> eid, status |-> status, cands |-> cands]
Note(kind) == Line(kind, "", "", 0, <<>>)

\* candidates[:5], as the (friendly, entity_id) pairs the suggestions show
FirstFive(cands) ==
    [i \in 1..(IF Len(cands) < 5 THEN Len(cands) ELSE 5) |->
        <<cands[i].friendly, cands[i].entity_id>>]

(* ------------------------------------------------------------------ *)
(* Command handlers                                                    *)
(* ------------------------------------------------------------------ *)

\* a handler branch that replies and also saves and rebuilds
NoChangeButSaved(c, d, lines) ==
    [cfg |-> c, disk |-> FileOf(c), rebuild |-> TRUE, reply |-> lines, raised |-> ""]

\* the outcome of a handler that leaves the directory alone
NoChange(c, d, lines) ==
    [cfg |-> c, disk |-> d, rebuild |-> FALSE, reply |-> lines, raised |-> ""]

\* mutate, save_config, rebuild_lookups_from_cfg, send: the outcome when
\* save_config behaves as o (a raising save skips the rebuild and the send)
Mutated(newcfg, d, o, lines) ==
    IF o = "ok"
    THEN [cfg |-> newcfg, disk |-> save_config(newcfg, d, o), rebuild |-> TRUE,
          reply |-> lines, raised |-> ""]
    ELSE [cfg |-> newcfg, disk |-> save_config(newcfg, d, o), rebuild |-> FALSE,
          reply |-> <<>>, raised |-> "OSError"]

\* rest.split()[0]
FirstToken(rest) == Str(NonEmptyPieces(SplitSeq(S(rest), WhiteSpace))[1])

\* the keys of d equal to norm: the stored key is not normalized
KeysEqualToNorm(d, norm) ==
    SelectSeq(DictKeys(d), LAMBDA pretty : pretty = norm)

\* the keys of d whose normalized name is norm, in order
KeysWithNorm(d, norm) ==
    SelectSeq(DictKeys(d), LAMBDA pretty : normalize_name(pretty) = norm)

\* the dict without every key whose normalized name is norm
DelNorm(d, norm) == SelectSeq(d, LAMBDA e : normalize_name(e.k) # norm)

\* HABot.handle_alias_command(message, content), c the config and d the file
\* before, o what save_config does if it is called
handle_alias_command(content, c, d, o) ==
    LET tail == Strip(Str(DropSeq(S(Strip(content)), Len("!alias")))) IN
    IF tail = "" \/ tail = "list"
    THEN IF c.aliases = <<>>
         THEN NoChange(c, d, <<Note("no_aliases")>>)
         ELSE NoChange(c, d, <<Note("aliases_header")>> \o
                  [i \in 1..Len(c.aliases) |->
                      Line("alias_entry", c.aliases[i].k, c.aliases[i].v, 0, <<>>)])
    ELSE IF StartsWith(tail, "add")
    THEN LET p == parse_quoted_name(Str(DropSeq(S(tail), Len("add")))) IN
         IF p.none \/ p.name = "" \/ p.remainder = ""
         THEN NoChange(c, d, <<Note("usage_alias_add")>>)
         ELSE LET entity_id == FirstToken(p.remainder)
                  newcfg == [c EXCEPT !.aliases = DictSet(c.aliases, p.name, entity_id)]
              IN Mutated(newcfg, d, o, <<Line("alias_saved", p.name, entity_id, 0, <<>>)>>)
    ELSE IF StartsWith(tail, "del")
    THEN LET p == parse_quoted_name(Str(DropSeq(S(tail), Len("del")))) IN
         IF p.none \/ p.name = ""
         THEN NoChange(c, d, <<Note("usage_alias_del")>>)
         ELSE LET norm == normalize_name(p.name)
                  deleted == KeysWithNorm(c.aliases, norm) # <<>>
                  newcfg == [c EXCEPT !.aliases = DelNorm(c.aliases, norm)]
              IN Mutated(newcfg, d, o,
                    <<Note(IF deleted THEN "alias_removed" ELSE "alias_not_found")>>)
    ELSE NoChange(c, d, <<Note("usage_alias")>>)

\* HABot.handle_group_command(message, content)
handle_group_command(content, c, d, o) ==
    LET tail == Strip(Str(DropSeq(S(Strip(content)), Len("!group")))) IN
    IF tail = "" \/ tail = "list"
    THEN IF c.groups = <<>>
         THEN NoChange(c, d, <<Note("no_groups")>>)
         ELSE NoChange(c, d, <<Note("groups_header")>> \o
                  [i \in 1..Len(c.groups) |->
                      Line("group_entry", c.groups[i].k, "", 0, c.groups[i].v)])
    ELSE IF StartsWith(tail, "show")
    THEN LET p == parse_quoted_name(Str(DropSeq(S(tail), Len("show")))) IN
         IF p.none \/ p.name = ""
         THEN NoChange(c, d, <<Note("usage_group_show")>>)
         ELSE LET hits == KeysWithNorm(c.groups, normalize_name(p.name)) IN
              IF hits # <<>>
              THEN NoChange(c, d,
                      <<Line("group_shown", hits[1], "", 0, DictGet(c.groups, hits[1]))>>)
              ELSE NoChange(c, d, <<Note("group_not_found")>>)
    ELSE IF StartsWith(tail, "set") \/ StartsWith(tail, "add")
    THEN LET mode == IF StartsWith(tail, "set") THEN "set" ELSE "add"
             p == parse_quoted_name(Str(DropSeq(S(tail), Len(mode))))
             members == split_members(p.remainder)
         IN
         IF p.none \/ p.name = ""
         THEN NoChange(c, d, <<Note(IF mode = "set" THEN "usage_group_set"
                                                     ELSE "usage_group_add")>>)
         ELSE IF members = <<>>
         THEN NoChange(c, d, <<Note("provide_members")>>)
         ELSE LET hits == KeysWithNorm(c.groups, normalize_name(p.name))
                  existing_key == IF hits # <<>> THEN hits[1] ELSE None
                  key == IF Truthy(existing_key) THEN existing_key ELSE p.name
                  current == IF DictHas(c.groups, key) THEN DictGet(c.groups, key) ELSE <<>>
                  newcfg ==
                      IF mode = "set"
                      THEN [c EXCEPT !.groups = DictSet(c.groups, key, members)]
                      ELSE [c EXCEPT !.groups = DictSet(c.groups, key, current \o members)]
              IN Mutated(newcfg, d, o,
                    <<Line(IF mode = "set" THEN "group_set" ELSE "group_updated",
                           p.name, "", Len(members), <<>>)>>)
    ELSE IF StartsWith(tail, "del")
    THEN LET p == parse_quoted_name(Str(DropSeq(S(tail), Len("del")))) IN
         IF p.none \/ p.name = ""
         THEN NoChange(c, d, <<Note("usage_group_del")>>)
         ELSE LET norm == normalize_name(p.name)
                  deleted == KeysWithNorm(c.groups, norm) # <<>>
                  newcfg == [c EXCEPT !.groups = DelNorm(c.groups, norm)]
              IN Mutated(newcfg, d, o,
                    <<Note(IF deleted THEN "group_removed" ELSE "group_not_found")>>)
    ELSE NoChange(c, d, <<Note("usage_group")>>)

(* ------------------------------------------------------------------ *)
(* on_message: routing and dispatch                                    *)
(* ------------------------------------------------------------------ *)

\* an inbound discord.Message, as far as on_message reads it
Message(author_bot, channel_id, author_id, author, content) ==
    [author_bot |-> author_bot, channel_id |-> channel_id,
     author_id |-> author_id, author |-> author, content |-> content]

NoMessage == Message(FALSE, "", "", "", "")

\* _is_authorized without the "empty set means unrestricted" rule
IsAuthorizedListedOnly(m) == m.author_id \in ALLOWED_USER_IDS

\* HABot._is_authorized(message)
is_authorized(m) ==
    IF ALLOWED_USER_IDS = {} THEN TRUE ELSE m.author_id \in ALLOWED_USER_IDS

\* lower = message.content.strip().lower()
LowerOf(m) == Lower(Strip(m.content))

\* the length of the whitespace run rest starts with
LeadingSpace(rest) ==
    IF \E k \in 1..Len(rest) : rest[k] \notin WhiteSpace
    THEN (CHOOSE k \in 1..Len(rest) :
             rest[k] \notin WhiteSpace /\ \A j \in 1..(k - 1) : rest[j] \in WhiteSpace) - 1
    ELSE Len(rest)

\* (.+): up to the first newline
UpToNewline(after, nl) == IF nl = 0 THEN after ELSE SubSeq(after, 1, nl - 1)

TurnGroups(prefix, ws, group2) ==
    IF ws >= 1 /\ group2 # <<>>
    THEN [matched |-> TRUE, action_text |-> prefix, target_raw |-> Str(StripSeq(group2))]
    ELSE [matched |-> FALSE, action_text |-> "", target_raw |-> ""]

TurnRest(prefix, rest, ws) ==
    TurnGroups(prefix, ws,
        UpToNewline(DropSeq(rest, ws), FirstIndexFrom(DropSeq(rest, ws), "\n", 1)))

\* re.match(r"(turn on|turn off)\s+(.+)", lower) for one alternative of
\* group 1: group 1, and group 2 stripped; matched is FALSE when no match
TurnMatchWith(lower, prefix) ==
    IF StartsWith(lower, prefix)
    THEN TurnRest(prefix, DropSeq(S(lower), Len(prefix)),
                  LeadingSpace(DropSeq(S(lower), Len(prefix))))
    ELSE [matched |-> FALSE, action_text |-> "", target_raw |-> ""]

FirstMatch(m1, m2) == IF m1.matched THEN m1 ELSE m2

TurnMatch(lower) ==
    FirstMatch(TurnMatchWith(lower, "turn on"), TurnMatchWith(lower, "turn off"))

\* the branch of on_message a message with lower-cased content takes
RouteLower(m, lower) ==
    IF m.author_bot \/ m.channel_id # COMMANDS_CHANNEL_ID THEN "ignored"
    ELSE IF StartsWith(lower, "!alias ") \/ lower = "!alias" THEN "alias"
    ELSE IF StartsWith(lower, "!group ") \/ lower = "!group" THEN "group"
    ELSE IF lower = "!reload" THEN "reload"
    ELSE IF TurnMatch(lower).matched THEN "turn"
    ELSE "ignored"

Route(m) == RouteLower(m, LowerOf(m))

\* the work of the dispatch loop for one name resolved to r: the failure
\* line to record when there are no entity ids, else one call per id
PlanFor(name, r) ==
    IF r.entity_ids = <<>>
    THEN IF r.candidates # <<>>
         THEN <<[call |-> FALSE, name |-> name, eid |-> "",
                 line |-> Line("close_matches", name, "", 0, FirstFive(r.candidates))]>>
         ELSE <<[call |-> FALSE, name |-> name, eid |-> "",
                 line |-> Line("no_match", name, "", 0, <<>>)]>>
    ELSE [i \in 1..Len(r.entity_ids) |->
             [call |-> TRUE, name |-> name, eid |-> r.entity_ids[i], line |-> Note("")]]

PlanOf(name) == PlanFor(name, resolve_single_target(name))

RECURSIVE PlanAll(_)
PlanAll(names) ==
    IF names = <<>> THEN <<>> ELSE PlanOf(Head(names)) \o PlanAll(Tail(names))

NumCalls(plan) == Len(SelectSeq(plan, LAMBDA st : st.call))

\* what one send_webhook call can do: return a status code, or raise
\* (requests.post timing out or failing to connect)
Returned(status_code) == [raises |-> FALSE, status_code |-> status_code]
TimedOut == [raises |-> TRUE, status_code |-> 0]

\* one send_webhook call of the loop: st the step, out what the call does
RECURSIVE RunPlan(_, _, _, _, _)
RunCall(plan, oc, cmd, user, acc, st, out) ==
    IF out.raises
    THEN [acc EXCEPT !.calls = Append(@, [target |-> st.eid, command |-> cmd, user |-> user]),
                     !.raised = "RequestException"]
    ELSE RunPlan(Tail(plan), oc, cmd, user,
           [acc EXCEPT
              !.calls = Append(@, [target |-> st.eid, command |-> cmd, user |-> user]),
              !.successes = IF out.status_code = 200
                            THEN Append(@, Line("requested", st.name, st.eid, 200, <<>>))
                            ELSE @,
              !.failures = IF out.status_code = 200 THEN @
                           ELSE Append(@, Line("webhook_http", st.name, st.eid,
                                               out.status_code, <<>>))])

\* the dispatch loop over plan; oc[k] is what the k-th send_webhook call
\* does; acc holds successes, failures and calls so far
RunPlan(plan, oc, cmd, user, acc) ==
    IF plan = <<>> THEN acc
    ELSE IF ~ Head(plan).call
    THEN RunPlan(Tail(plan), oc, cmd, user,
                 [acc EXCEPT !.failures = Append(@, Head(plan).line)])
    ELSE RunCall(plan, oc, cmd, user, acc, Head(plan), oc[Len(acc.calls) + 1])

\* the reply with the failure lines before the success lines
ReplyOfFailuresFirst(lines) ==
    IF lines = <<>> THEN <<Note("nothing_to_do")>>
    ELSE SelectSeq(lines, LAMBDA l : l.kind # "requested")
         \o SelectSeq(lines, LAMBDA l : l.kind = "requested")

\* the reply on_message sends after the loop
ReplyOf(lines) == IF lines = <<>> THEN <<Note("nothing_to_do")>> ELSE lines

\* the locals of on_message after the loop, and the reply (none if a call
\* raised)
DispatchResult(names, run) ==
    [expanded_names |-> names, successes |-> run.successes,
     failures |-> run.failures, calls |-> run.calls, raised |-> run.raised,
     reply |-> IF run.raised # "" THEN <<>> ELSE ReplyOf(run.successes \o run.failures)]

DispatchNames(m, oc, cmd, names) ==
    DispatchResult(names,
        RunPlan(PlanAll(names), oc, cmd, m.author,
                [successes |-> <<>>, failures |-> <<>>, calls |-> <<>>, raised |-> ""]))

DispatchTurn(m, oc, tm) ==
    DispatchNames(m, oc, IF tm.action_text = "turn on" THEN "turn_on" ELSE "turn_off",
                  expand_numbers_suffix(tm.target_raw))

\* the natural-language branch of on_message for message m
dispatch(m, oc) == DispatchTurn(m, oc, TurnMatch(LowerOf(m)))

(* ------------------------------------------------------------------ *)
(* Events                                                              *)
(* ------------------------------------------------------------------ *)

\* the response of GET /api/states: the request fails, the status is not a
\* success, the body is not JSON, or a JSON list of items
FetchFailed(kind) == [kind |-> kind, data |-> <<>>]
Fetched(data) == [kind |-> "ok", data |-> data]

\* what a handler that makes no webhook call leaves in the dispatch locals
NoDispatch ==
    /\ expanded_names' = <<>>
    /\ successes' = <<>>
    /\ failures' = <<>>
    /\ calls' = <<>>

\* the locals of the dispatch loop: successes, failures, calls so far
NoOutcomes == [successes |-> <<>>, failures |-> <<>>, calls |-> <<>>, raised |-> ""]

\* one on_message coroutine: its message, the branch it took, where it
\* stands, its locals, and the directory its command produced and the
\* catalog it found when it started
NoTask ==
    [id |-> 0, m |-> NoMessage, kind |-> "none", pc |-> "none", lines |-> <<>>,
     dir |-> EmptyCfg, cat |-> <<>>, data |-> <<>>, expanded |-> <<>>,
     names |-> <<>>, plan |-> <<>>, acc |-> NoOutcomes]

\* no coroutine queued, running or suspended
NoTasks == [queue |-> <<>>, cur |-> NoTask, waiting |-> {}]

\* the state after construction: HABot.__init__ has run load_config() on
\* file d, the lookups and the catalog are empty
InitWith(allowed, d) ==
    /\ ALLOWED_USER_IDS = allowed
    /\ DEFAULT_CONFIG = EmptyCfg
    /\ cfg = load_config(d, EmptyCfg).cfg
    /\ cfg_shared = load_config(d, EmptyCfg).shared
    /\ disk = d
    /\ alias_lookup = <<>>
    /\ group_lookup = <<>>
    /\ entities = <<>>
    /\ exact_index = <<>>
    /\ ready = FALSE
    /\ msg = NoMessage
    /\ fetched = FetchFailed("none")
    /\ expanded_names = <<>>
    /\ successes = <<>>
    /\ failures = <<>>
    /\ calls = <<>>
    /\ reply = <<>>
    /\ sent = FALSE
    /\ raised = ""
    /\ handled = 0
    /\ tasks = NoTasks

\* HABot.on_ready() when the backend answers the catalog read with fetch
on_ready(fetch) ==
    LET ld == load_config(disk, DEFAULT_CONFIG)
        b == build_entity_index(fetch, entities, exact_index)
    IN /\ cfg' = ld.cfg
       /\ cfg_shared' = ld.shared
       /\ alias_lookup' = rebuild_alias_lookup(ld.cfg)
       /\ group_lookup' = rebuild_group_lookup(ld.cfg)
       /\ entities' = b.entities
       /\ exact_index' = b.exact_index
       /\ ready' = TRUE
       /\ msg' = NoMessage
       /\ fetched' = fetch
       /\ NoDispatch
       /\ reply' = <<>>
       /\ sent' = FALSE
       /\ raised' = ""
       /\ handled' = handled + 1
       /\ UNCHANGED <<tasks, ALLOWED_USER_IDS, DEFAULT_CONFIG, disk>>

\* on_message returns at once: a bot's message, another channel, or text
\* that is no command
Ignored(m) ==
    /\ ready
    /\ Route(m) = "ignored"
    /\ msg' = m
    /\ NoDispatch
    /\ reply' = <<>>
    /\ sent' = FALSE
    /\ raised' = ""
    /\ handled' = handled + 1
    /\ UNCHANGED <<tasks, ALLOWED_USER_IDS, dirVars, catVars, ready, fetched>>

\* on_message: an admin command of an issuer _is_authorized rejects
Denied(m) ==
    /\ ready
    /\ Route(m) \in {"alias", "group", "reload"}
    /\ ~ is_authorized(m)
    /\ msg' = m
    /\ NoDispatch
    /\ reply' = <<Note(CASE Route(m) = "alias" -> "denied_alias"
                         [] Route(m) = "group" -> "denied_group"
                         [] Route(m) = "reload" -> "denied_reload")>>
    /\ sent' = TRUE
    /\ raised' = ""
    /\ handled' = handled + 1
    /\ UNCHANGED <<tasks, ALLOWED_USER_IDS, dirVars, catVars, ready, fetched>>

\* the effect of an alias/group handler's outcome r on the bot
ApplyAdmin(m, r) ==
    /\ cfg' = r.cfg
    /\ DEFAULT_CONFIG' = IF cfg_shared THEN r.cfg ELSE DEFAULT_CONFIG
    /\ disk' = r.disk
    /\ alias_lookup' = IF r.rebuild THEN rebuild_alias_lookup(r.cfg) ELSE alias_lookup
    /\ group_lookup' = IF r.rebuild THEN rebuild_group_lookup(r.cfg) ELSE group_lookup
    /\ msg' = m
    /\ NoDispatch
    /\ reply' = r.reply
    /\ sent' = (r.raised = "")
    /\ raised' = r.raised
    /\ handled' = handled + 1
    /\ UNCHANGED <<tasks, ALLOWED_USER_IDS, cfg_shared, catVars, ready, fetched>>

\* on_message: "!alias ..." of an authorized issuer
AliasCommand(m, o) ==
    /\ ready
    /\ Route(m) = "alias"
    /\ is_authorized(m)
    /\ ApplyAdmin(m, handle_alias_command(Strip(m.content), cfg, disk, o))

\* on_message: "!group ..." of an authorized issuer
GroupCommand(m, o) ==
    /\ ready
    /\ Route(m) = "group"
    /\ is_authorized(m)
    /\ ApplyAdmin(m, handle_group_command(Strip(m.content), cfg, disk, o))

\* on_message: "!reload" of an authorized issuer
Reload(m, fetch) ==
    /\ ready
    /\ Route(m) = "reload"
    /\ is_authorized(m)
    /\ LET b == build_entity_index(fetch, entities, exact_index)
       IN /\ entities' = b.entities
          /\ exact_index' = b.exact_index
          /\ reply' = <<Note(IF b.raised = "" THEN "reload_ok" ELSE "reload_failed")>>
    /\ msg' = m
    /\ fetched' = fetch
    /\ NoDispatch
    /\ sent' = TRUE
    /\ raised' = ""
    /\ handled' = handled + 1
    /\ UNCHANGED <<tasks, ALLOWED_USER_IDS, dirVars, ready>>

\* the effect of the natural-language branch with result r
ApplyDispatch(m, r) ==
    /\ expanded_names' = r.expanded_names
    /\ successes' = r.successes
    /\ failures' = r.failures
    /\ calls' = r.calls
    /\ reply' = r.reply
    /\ sent' = (r.raised = "")
    /\ raised' = r.raised
    /\ msg' = m
    /\ handled' = handled + 1
    /\ UNCHANGED <<tasks, ALLOWED_USER_IDS, dirVars, catVars, ready, fetched>>

\* the number of send_webhook calls the dispatch of m reaches if none raises
CallsOf(m) ==
    NumCalls(PlanAll(expand_numbers_suffix(TurnMatch(LowerOf(m)).target_raw)))

\* on_message: "turn on|off <target>", each send_webhook call doing one of
\* outcomes
Dispatch(m, outcomes) ==
    /\ ready
    /\ Route(m) = "turn"
    /\ \E oc \in [1..CallsOf(m) -> outcomes] : ApplyDispatch(m, dispatch(m, oc))

(* ------------------------------------------------------------------ *)
(* Inputs                                                              *)
(* ------------------------------------------------------------------ *)

AdminId == "1001"
GuestId == "2002"

\* a message of a human issuer in the commands channel
FromAdmin(content) == Message(FALSE, COMMANDS_CHANNEL_ID, AdminId, "admin#0001", content)
FromGuest(content) == Message(FALSE, COMMANDS_CHANNEL_ID, GuestId, "guest#0002", content)

\* the files the bot can find at start
InitialFiles == {FileMissing, FileMalformed, FileOf(EmptyCfg)}

\* directory commands: two spellings of one alias name, an alias and a group
\* of the same name, deletions of present and of absent names
DirectoryInbound ==
    { FromAdmin("!alias add \"Kitchen Light\" light.kitchen"),
      FromAdmin("!alias add kitchen-light switch.fan1"),
      FromAdmin("!alias add \"Downstairs\" light.lr1"),
      FromAdmin("!alias del \"KITCHEN LIGHT\""),
      FromAdmin("!alias del Porch"),
      FromAdmin("!group set \"Downstairs\" switch.fan1, Kitchen-Light"),
      FromAdmin("!group add downstairs light.kitchen"),
      FromAdmin("!group del \"Porch\""),
      FromAdmin("!group del DOWNSTAIRS"),
      FromAdmin("turn on Kitchen Light"),
      FromAdmin("turn off downstairs") }

(* ------------------------------------------------------------------ *)
(* Spec: the directory on a disk that takes every write                *)
(* ------------------------------------------------------------------ *)

\* events per behaviour
MaxEvents == 4

Init == \E d \in InitialFiles : InitWith({}, d)

Ready ==
    /\ handled < MaxEvents
    /\ on_ready(FetchFailed("unreachable"))

Alias ==
    /\ handled < MaxEvents
    /\ \E m \in DirectoryInbound : AliasCommand(m, "ok")

Group ==
    /\ handled < MaxEvents
    /\ \E m \in DirectoryInbound : GroupCommand(m, "ok")

Turn ==
    /\ handled < MaxEvents
    /\ \E m \in DirectoryInbound : Dispatch(m, {Returned(200)})

Next == Ready \/ Alias \/ Group \/ Turn

Spec == Init /\ [][Next]_vars

(* ------------------------------------------------------------------ *)
(* SpecFaulty: the directory on a disk whose writes can fail           *)
(* ------------------------------------------------------------------ *)

FaultyAlias ==
    /\ handled < MaxEvents
    /\ \E m \in DirectoryInbound, o \in SaveOutcomes : AliasCommand(m, o)

FaultyGroup ==
    /\ handled < MaxEvents
    /\ \E m \in DirectoryInbound, o \in SaveOutcomes : GroupCommand(m, o)

NextFaulty == Ready \/ FaultyAlias \/ FaultyGroup \/ Turn

SpecFaulty == Init /\ [][NextFaulty]_vars

(* ------------------------------------------------------------------ *)
(* Properties of the directory                                         *)
(* ------------------------------------------------------------------ *)

\* the last event was an alias upsert that ran to its reply
AliasJustSaved == sent /\ reply # <<>> /\ reply[1].kind = "alias_saved"

\* the stored aliases whose key normalizes like name
AliasesLike(name) ==
    SelectSeq(cfg.aliases, LAMBDA e : normalize_name(e.k) = normalize_name(name))

\* C1: no two stored alias keys have the same normalized name, and after an
\* alias upsert the stored directory holds exactly one alias with the
\* upserted name's normalized form, carrying the entity id just written.
C1_OneAliasPerNormalizedName ==
    /\ \A i, j \in 1..Len(cfg.aliases) :
          normalize_name(cfg.aliases[i].k) = normalize_name(cfg.aliases[j].k) => i = j
    /\ AliasJustSaved =>
          /\ Len(AliasesLike(reply[1].name)) = 1
          /\ AliasesLike(reply[1].name)[1].v = reply[1].eid

\* C2: right after an alias upsert (the most recent one for its normalized
\* name), resolving the upserted name yields exactly the entity id of that
\* upsert, provided no group has that normalized name.
C2_LastWriteWins ==
    (AliasJustSaved /\ normalize_name(reply[1].name) \notin DOMAIN group_lookup)
        => resolve_single_target(reply[1].name).entity_ids = <<reply[1].eid>>

\* the text after the command word of an admin command
TailOf(m, word) == Strip(Str(DropSeq(S(Strip(m.content)), Len(word))))

\* the name argument of a "del" subcommand
DelName(m, word) == parse_quoted_name(Str(DropSeq(S(TailOf(m, word)), Len("del")))).name

\* m is "!alias del <name>" naming an alias that is not stored in d
DelOfMissingAlias(m, d) ==
    /\ Route(m) = "alias"
    /\ StartsWith(TailOf(m, "!alias"), "del")
    /\ DelName(m, "!alias") # ""
    /\ \A i \in 1..Len(d) : normalize_name(d[i].k) # normalize_name(DelName(m, "!alias"))

\* m is "!group del <name>" naming a group that is not stored in d
DelOfMissingGroup(m, d) ==
    /\ Route(m) = "group"
    /\ StartsWith(TailOf(m, "!group"), "del")
    /\ DelName(m, "!group") # ""
    /\ \A i \in 1..Len(d) : normalize_name(d[i].k) # normalize_name(DelName(m, "!group"))

\* C3: handling an alias/group delete that names nothing stored replies
\* "not found" and leaves the file at CONFIG_PATH as it was: missing stays
\* missing, and an existing file keeps its content.
C3_DeleteMissingKeepsFile ==
    [][ (handled' = handled + 1 /\ msg' # NoMessage) =>
          /\ DelOfMissingAlias(msg', cfg.aliases) =>
                (reply' = <<Note("alias_not_found")>> /\ disk' = disk)
          /\ DelOfMissingGroup(msg', cfg.groups) =>
                (reply' = <<Note("group_not_found")>> /\ disk' = disk) ]_vars

\* the last event was a dispatch of one phrase that ran to its reply
DispatchedOne == Route(msg) = "turn" /\ sent /\ Len(expanded_names) = 1

\* the targets of the send_webhook calls of the last handler, in order
Targets == [i \in 1..Len(calls) |-> calls[i].target]

\* the phrase of the last dispatch is the name of a stored group and of a
\* stored alias (an entry of the normalized-name group and alias lookups)
GroupAndAlias ==
    /\ DispatchedOne
    /\ normalize_name(expanded_names[1]) \in DOMAIN group_lookup
    /\ normalize_name(expanded_names[1]) \in DOMAIN alias_lookup

HomeCatalog ==
    << HAItem("light.kitchen", "Kitchen Light"),
       HAItem("switch.fan1", "Fan 1"),
       HAItem("sensor.kitchen_temp", "Kitchen Temp") >>

\* the alias, the two ways to type the group's members, the dispatch
E2EInbound ==
    { FromAdmin("!alias add \"Kitchen Light\" light.kitchen"),
      FromAdmin("!group set \"Downstairs\" Kitchen Light, switch.fan1"),
      FromAdmin("!group set \"Downstairs\" \"Kitchen Light\" switch.fan1"),
      FromAdmin("turn on downstairs"),
      FromAdmin("Turn Off Kitchen Light") }

\* a webhook call returns 200, returns an error status, or times out
WebhookOutcomes == {Returned(200), Returned(500), TimedOut}

InitE2E == InitWith({}, FileMissing)

E2EReady ==
    /\ handled < MaxEvents
    /\ \E f \in {FetchFailed("unreachable"), Fetched(HomeCatalog)} : on_ready(f)

E2EAlias ==
    /\ handled < MaxEvents
    /\ \E m \in E2EInbound : AliasCommand(m, "ok")

E2EGroup ==
    /\ handled < MaxEvents
    /\ \E m \in E2EInbound : GroupCommand(m, "ok")

E2ETurn ==
    /\ handled < MaxEvents
    /\ \E m \in E2EInbound : Dispatch(m, WebhookOutcomes)

NextE2E == E2EReady \/ E2EAlias \/ E2EGroup \/ E2ETurn

SpecE2E == InitE2E /\ [][NextE2E]_vars

\* the alias "Kitchen Light" -> light.kitchen and a group "Downstairs" (set
\* by one of the !group set commands above) are stored
KitchenInDownstairs ==
    /\ "kitchenlight" \in DOMAIN alias_lookup
    /\ alias_lookup["kitchenlight"].v = "light.kitchen"
    /\ "downstairs" \in DOMAIN group_lookup

\* every send_webhook call of the last dispatch returned HTTP 200
AllReturned200 ==
    /\ raised = ""
    /\ \A i \in 1..Len(failures) : failures[i].kind # "webhook_http"

\* C5: with the alias and the group in place, "turn on downstairs" makes
\* exactly two turn_on calls, to light.kitchen and to switch.fan1, and when
\* the calls return 200 the reply is exactly two success lines.
C5_EndToEnd ==
    (Route(msg) = "turn" /\ LowerOf(msg) = "turn on downstairs"
       /\ KitchenInDownstairs /\ AllReturned200)
    => /\ Targets = <<"light.kitchen", "switch.fan1">>
       /\ \A i \in 1..Len(calls) : calls[i].command = "turn_on"
       /\ Len(successes) = 2
       /\ reply = successes

\* C10: a send_webhook call that times out or cannot connect is one more
\* failure of that call: the dispatch still makes the call for every
\* resolved entity, records an outcome for every step and sends its reply.
C10_TimeoutIsOrdinaryFailure ==
    Route(msg) = "turn"
    => /\ sent
       /\ raised = ""
       /\ Len(calls) = CallsOf(msg)
       /\ Len(successes) + Len(failures) = Len(PlanAll(expanded_names))

(* ------------------------------------------------------------------ *)
(* SpecAuth: admin commands of allowed and of other issuers            *)
(* ------------------------------------------------------------------ *)

PorchCatalog == <<HAItem("light.porch", "Porch Light")>>

AdminContents ==
    { "!alias add Porch light.porch",
      "!alias del Porch",
      "!alias",
      "!group set Patio light.porch Porch",
      "!group del Patio",
      "!Reload" }

AuthInbound ==
    {FromAdmin(c) : c \in AdminContents} \cup {FromGuest(c) : c \in AdminContents}
    \cup { FromGuest("turn on patio"),
           FromGuest("hello there"),
           Message(TRUE, COMMANDS_CHANNEL_ID, GuestId, "relay#0003", "!alias del Porch"),
           Message(FALSE, "77", GuestId, "guest#0002", "!reload") }

InitAuth == \E allowed \in {{}, {AdminId}} : InitWith(allowed, FileMissing)

AuthReady ==
    /\ handled < MaxEvents
    /\ on_ready(Fetched(PorchCatalog))

AuthIgnored ==
    /\ handled < MaxEvents
    /\ \E m \in AuthInbound : Ignored(m)

AuthDenied ==
    /\ handled < MaxEvents
    /\ \E m \in AuthInbound : Denied(m)

AuthAlias ==
    /\ handled < MaxEvents
    /\ \E m \in AuthInbound : AliasCommand(m, "ok")

AuthGroup ==
    /\ handled < MaxEvents
    /\ \E m \in AuthInbound : GroupCommand(m, "ok")

AuthReload ==
    /\ handled < MaxEvents
    /\ \E m \in AuthInbound, f \in {FetchFailed("unreachable"), Fetched(<<>>)} : Reload(m, f)

AuthTurn ==
    /\ handled < MaxEvents
    /\ \E m \in AuthInbound : Dispatch(m, {Returned(200)})

NextAuth ==
    AuthReady \/ AuthIgnored \/ AuthDenied \/ AuthAlias \/ AuthGroup \/ AuthReload
    \/ AuthTurn

SpecAuth == InitAuth /\ [][NextAuth]_vars

DenialKinds == {"denied_alias", "denied_group", "denied_reload"}

\* the reply is the denial message and nothing else
IsDenial(lines) == Len(lines) = 1 /\ lines[1].kind \in DenialKinds

\* m is an admin command that on_message takes from a human in the channel
IsAdminCommand(m) == Route(m) \in {"alias", "group", "reload"}

\* C6: an admin command of an issuer outside a non-empty allowed set is
\* answered with the denial and changes neither the directory in memory, the
\* file, the lookups nor the catalog; an admin command of an allowed issuer,
\* or of anyone when the allowed set is empty, is not denied.
C6_AuthorizationGate ==
    [][ (handled' = handled + 1 /\ IsAdminCommand(msg')) =>
          IF ALLOWED_USER_IDS # {} /\ msg'.author_id \notin ALLOWED_USER_IDS
          THEN /\ sent' /\ IsDenial(reply')
               /\ UNCHANGED <<DEFAULT_CONFIG, cfg, cfg_shared, disk, alias_lookup,
                              group_lookup, entities, exact_index>>
          ELSE /\ sent' /\ ~ IsDenial(reply') ]_vars

\* a denial while there is a directory, a file and a catalog to protect, and
\* a command of a guest that was carried out under the empty allowed set
C6_Witness ==
    \/ /\ sent /\ IsDenial(reply)
       /\ msg.author_id = GuestId
       /\ cfg.aliases # <<>> /\ disk.kind = "json" /\ entities # <<>>
    \/ /\ ALLOWED_USER_IDS = {}
       /\ msg.author_id = GuestId
       /\ sent /\ reply = <<Line("alias_saved", "Porch", "light.porch", 0, <<>>)>>

(* ------------------------------------------------------------------ *)
(* SpecCatalog: catalog refreshes and resolution against the catalog   *)
(* ------------------------------------------------------------------ *)

\* a sensor and a light that share the word "kitchen"
KitchenCatalog ==
    << HAItem("sensor.kitchen_temp", "Kitchen Temp"),
       HAItem("light.kitchen", "Kitchen Light") >>

\* a list whose second element is not an object
JunkCatalog == << HAItem("switch.fan1", "Fan"), HAJunk, HAItem("light.kitchen", "Kitchen Light") >>

\* a list whose second element has neither an id nor a name
NamelessCatalog == << HAItem("fan.attic", None), HAItem(None, None) >>

\* what the backend can answer to GET /api/states
CatalogFetches ==
    { FetchFailed("unreachable"), FetchFailed("bad_status"), FetchFailed("bad_json"),
      Fetched(KitchenCatalog), Fetched(JunkCatalog), Fetched(NamelessCatalog),
      Fetched(<<>>) }

CatalogInbound ==
    { FromAdmin("!reload"),
      FromGuest("turn on kitchen"),
      FromGuest("turn on !!!"),
      FromGuest("turn off Kitchen Light"),
      FromGuest("turn on temp"),
      FromGuest("turn on attic fan") }

InitCatalog == InitWith({}, FileMissing)

CatReady ==
    /\ handled < MaxEvents
    /\ \E f \in CatalogFetches : on_ready(f)

CatReload ==
    /\ handled < MaxEvents
    /\ \E m \in CatalogInbound, f \in CatalogFetches : Reload(m, f)

CatTurn ==
    /\ handled < MaxEvents
    /\ \E m \in CatalogInbound : Dispatch(m, {Returned(200), Returned(500)})

NextCatalog == CatReady \/ CatReload \/ CatTurn

SpecCatalog == InitCatalog /\ [][NextCatalog]_vars

\* the step is a catalog refresh: on_ready, or a "!reload" that was let in
RefreshStep ==
    /\ handled' = handled + 1
    /\ \/ msg' = NoMessage
       \/ Route(msg') = "reload" /\ sent' /\ ~ IsDenial(reply')

\* the answer is a list of which every element can be indexed
Processable(fetch) ==
    /\ fetch.kind = "ok"
    /\ \A i \in 1..Len(fetch.data) :
          /\ fetch.data[i].is_dict
          /\ fetch.data[i].entity_id # None \/ Truthy(fetch.data[i].friendly_name)

\* C7: a refresh either replaces the entity list and the exact-match index
\* by the ones of the newly fetched list, or, when the backend is
\* unreachable, answers a non-success status or sends a record that cannot
\* be processed, leaves both exactly as they were.
C7_RefreshIsAtomic ==
    [][ RefreshStep =>
          IF Processable(fetched')
          THEN /\ entities' = [i \in 1..Len(fetched'.data) |-> EntOf(fetched'.data[i])]
               /\ exact_index' = IndexLoop(fetched'.data, <<>>, <<>>).exact_index
          ELSE UNCHANGED <<entities, exact_index>> ]_vars

\* the phrase of the last dispatch hits no group, alias or exact-index entry
NoDirectHit ==
    /\ DispatchedOne
    /\ normalize_name(expanded_names[1]) \notin DOMAIN group_lookup
    /\ normalize_name(expanded_names[1]) \notin DOMAIN alias_lookup
    /\ normalize_name(expanded_names[1]) \notin DOMAIN exact_index

\* the light, switch and fan entities whose normalized label or normalized
\* id contains norm
ContainingControllable(norm) ==
    SelectSeq(entities, LAMBDA e :
        /\ e.domain \in {"light", "switch", "fan"}
        /\ Contains(e.norm_friendly, norm) \/ Contains(e.norm_entity, norm))

\* the commands of the last dispatch went to exactly the one controllable
\* entity containing norm
NarrowedTo(norm) ==
    Len(ContainingControllable(norm)) = 1
    => Targets = <<ContainingControllable(norm)[1].entity_id>>

\* C9 as stated: a phrase without group, alias or exact-index hit, contained
\* in exactly one light, switch or fan entity, resolves to that entity alone.
C9_PreferredNarrowing ==
    NoDirectHit => NarrowedTo(normalize_name(expanded_names[1]))

\* C9, for phrases with a non-empty normalized form: a phrase without group,
\* alias or exact-index hit, contained in exactly one light, switch or fan
\* entity, resolves to that entity alone.
C9_PreferredNarrowingNonEmpty ==
    (NoDirectHit /\ normalize_name(expanded_names[1]) # "")
    => NarrowedTo(normalize_name(expanded_names[1]))

\* "kitchen" went to light.kitchen while sensor.kitchen_temp contains it too
C9_Witness ==
    /\ NoDirectHit
    /\ normalize_name(expanded_names[1]) = "kitchen"
    /\ Len(entities) = 2
    /\ \A i \in 1..Len(entities) : Contains(entities[i].norm_friendly, "kitchen")
    /\ Targets = <<"light.kitchen">>

(* ------------------------------------------------------------------ *)
(* SpecExpand: numeric ranges in the target of a dispatch              *)
(* ------------------------------------------------------------------ *)

\* the numbers of a range go from 0 to MaxNumber
MaxNumber == 4

Bases == {"light", "living room light"}
Separators == {" to ", "-"}

\* "<base> <A><sep><B>"
RangeText(base, A, sep, B) ==
    base \o " " \o Str(IntToDigits(A)) \o sep \o Str(IntToDigits(B))

ExpandInbound ==
    { FromAdmin("turn on " \o RangeText(base, A, sep, B)) :
        base \in Bases, A \in 0..MaxNumber, sep \in Separators, B \in 0..MaxNumber }

InitExpand == InitWith({}, FileMissing)

ExpandReady ==
    /\ handled < MaxEvents
    /\ on_ready(Fetched(<<>>))

ExpandTurn ==
    /\ handled < MaxEvents
    /\ \E m \in ExpandInbound : Dispatch(m, {Returned(200)})

NextExpand == ExpandReady \/ ExpandTurn

SpecExpand == InitExpand /\ [][NextExpand]_vars

\* "base A", ..., "base B" in ascending order, or the phrase itself when the
\* range is empty
RangePhrases(base, A, sep, B) ==
    IF A <= B
    THEN [i \in 1..(B - A + 1) |-> base \o " " \o Str(IntToDigits(A + i - 1))]
    ELSE <<RangeText(base, A, sep, B)>>

\* C8: "base A to B" and "base A-B" both expand to "base n" for every n
\* from A to B in ascending order when A <= B, and to the unchanged phrase
\* when A > B.
C8_RangeExpansion ==
    \A base \in Bases, A \in 0..MaxNumber, sep \in Separators, B \in 0..MaxNumber :
        (sent /\ msg = FromAdmin("turn on " \o RangeText(base, A, sep, B)))
        => expanded_names = RangePhrases(base, A, sep, B)

(* ------------------------------------------------------------------ *)
(* SpecUsage: admin commands with missing or unknown arguments         *)
(* ------------------------------------------------------------------ *)

UsageInbound ==
    { FromAdmin("!alias add Porch light.porch"),
      FromAdmin("!group set Patio light.porch"),
      FromAdmin("!alias add"),
      FromAdmin("!alias add Porch"),
      FromAdmin("!alias add \"\" light.porch"),
      FromAdmin("!alias del"),
      FromAdmin("!alias rename Porch Deck"),
      FromAdmin("!group show"),
      FromAdmin("!group set"),
      FromAdmin("!group add \"\" light.porch"),
      FromAdmin("!group set Patio"),
      FromAdmin("!group add \"Patio\" , ,"),
      FromAdmin("!group del"),
      FromAdmin("!group rename Patio Deck") }

UsageReady ==
    /\ handled < MaxEvents
    /\ on_ready(FetchFailed("unreachable"))

UsageAlias ==
    /\ handled < MaxEvents
    /\ \E m \in UsageInbound, o \in SaveOutcomes : AliasCommand(m, o)

UsageGroup ==
    /\ handled < MaxEvents
    /\ \E m \in UsageInbound, o \in SaveOutcomes : GroupCommand(m, o)

NextUsage == UsageReady \/ UsageAlias \/ UsageGroup

SpecUsage == Init /\ [][NextUsage]_vars

UsageKinds ==
    { "usage_alias_add", "usage_alias_del", "usage_alias", "usage_group_show",
      "usage_group_set", "usage_group_add", "provide_members", "usage_group_del",
      "usage_group" }

\* the reply is a usage error and nothing else
IsUsageError(lines) == Len(lines) = 1 /\ lines[1].kind \in UsageKinds

\* C11: an admin command answered with a usage error changes neither the
\* directory in memory, the file, nor the alias and group lookups.
C11_UsageErrorChangesNothing ==
    [][ (handled' = handled + 1 /\ sent' /\ IsUsageError(reply')) =>
          UNCHANGED <<DEFAULT_CONFIG, cfg, cfg_shared, disk, alias_lookup,
                      group_lookup>> ]_vars

\* a usage error answered while an alias and a group are stored
C11_Witness ==
    /\ sent /\ IsUsageError(reply)
    /\ cfg.aliases # <<>> /\ cfg.groups # <<>>
    /\ disk.kind \in {"json", "malformed"}

(* ------------------------------------------------------------------ *)
(* Loads of the directory                                              *)
(* ------------------------------------------------------------------ *)

\* the step is an on_ready
ReadyStep == handled' = handled + 1 /\ msg' = NoMessage

\* C12: a load that finds the file missing, unreadable or unparsable gives
\* the empty config: at construction, and at every on_ready whatever alias
\* and group commands were handled before it.
C12_LoadOfBadFileIsEmpty ==
    [][ /\ (handled = 0 /\ disk.kind # "json") => cfg = EmptyCfg
        /\ (ReadyStep /\ disk.kind # "json") => cfg' = EmptyCfg ]_vars

(* ------------------------------------------------------------------ *)
(* SpecNormalize: normalize_name on the names of "!group show"         *)
(* ------------------------------------------------------------------ *)

\* names are at most MaxNameLen characters long
MaxNameLen == 3

\* an upper-case letter, a lower-case letter, a digit and a separator
NameChars == {"A", "a", "7", "-"}

NameStrings ==
    UNION { {Str(cs) : cs \in [1..n -> NameChars]} : n \in 1..MaxNameLen }

\* a file holding one group
OneGroupFile ==
    FileOf([aliases |-> EmptyDict,
            groups |-> <<[k |-> "A-7", v |-> <<"light.attic">>]>>])

ShowMessage(s) == FromAdmin("!group show \"" \o s \o "\"")

InitNormalize == InitWith({}, OneGroupFile)

NormReady ==
    /\ handled < MaxEvents
    /\ on_ready(FetchFailed("unreachable"))

NormShow ==
    /\ handled < MaxEvents
    /\ \E s \in NameStrings : GroupCommand(ShowMessage(s), "ok")

NextNormalize == NormReady \/ NormShow

SpecNormalize == InitNormalize /\ [][NextNormalize]_vars

\* C13: normalize_name is idempotent: normalizing the normalized form of a
\* name gives the normalized form again.
C13_NormalizeIdempotent ==
    \A s \in NameStrings :
        (sent /\ msg = ShowMessage(s))
        => normalize_name(normalize_name(s)) = normalize_name(s)

\* a name with upper case and separators was normalized and found the group
\* stored under another spelling
C13_Witness ==
    /\ sent /\ msg = ShowMessage("-a7")
    /\ reply = <<Line("group_shown", "A-7", "", 0, <<"light.attic">>)>>

(* ------------------------------------------------------------------ *)
(* Deletions and group upserts                                         *)
(* ------------------------------------------------------------------ *)

\* the step is an "!alias del" that ran to its reply
AliasDelStep ==
    /\ handled' = handled + 1
    /\ sent'
    /\ reply' \in {<<Note("alias_removed")>>, <<Note("alias_not_found")>>}

\* C14: one "!alias del" removes at most one stored alias entry, and none
\* when it replies "not found".
C14_DeleteRemovesAtMostOne ==
    [][ AliasDelStep =>
          /\ Len(cfg.aliases) - Len(cfg'.aliases) \in {0, 1}
          /\ reply' = <<Note("alias_not_found")>> => cfg'.aliases = cfg.aliases ]_vars

\* m is "!group set|add <name> <members>" with a name and members
GroupUpsert(m) ==
    /\ Route(m) = "group"
    /\ \/ StartsWith(TailOf(m, "!group"), "set")
       \/ StartsWith(TailOf(m, "!group"), "add")
    /\ parse_quoted_name(Str(DropSeq(S(TailOf(m, "!group")), Len("set")))).name # ""
    /\ split_members(
          parse_quoted_name(Str(DropSeq(S(TailOf(m, "!group")), Len("set")))).remainder)
          # <<>>

UpsertName(m) ==
    parse_quoted_name(Str(DropSeq(S(TailOf(m, "!group")), Len("set")))).name

UpsertMembers(m) ==
    split_members(
        parse_quoted_name(Str(DropSeq(S(TailOf(m, "!group")), Len("set")))).remainder)

\* the positions of the keys of d with the normalized name of name
PositionsLike(d, name) ==
    {i \in 1..Len(d) : normalize_name(d[i].k) = normalize_name(name)}

\* no two keys of d have the same normalized name
UniqueNormalized(d) ==
    \A i, j \in 1..Len(d) : normalize_name(d[i].k) = normalize_name(d[j].k) => i = j

\* groups after a set/add of members under name: the entry with that
\* normalized name keeps its key and position, else a new entry goes last
UpsertedGroups(d, d2, set, name, members) ==
    IF PositionsLike(d, name) = {}
    THEN d2 = Append(d, [k |-> name, v |-> members])
    ELSE \E i \in PositionsLike(d, name) :
            d2 = [d EXCEPT ![i].v = IF set THEN members ELSE @ \o members]

\* C15: "!group set" replaces and "!group add" extends the member list of
\* the stored key with the same normalized name, keeping that key's
\* spelling; without such a key a new key with exactly the given members is
\* created; and no two stored group keys share a normalized name.
C15_GroupUpsertKeepsKeysUnique ==
    [][ /\ UniqueNormalized(cfg'.groups)
        /\ (handled' = handled + 1 /\ GroupUpsert(msg')) =>
              UpsertedGroups(cfg.groups, cfg'.groups,
                             StartsWith(TailOf(msg', "!group"), "set"),
                             UpsertName(msg'), UpsertMembers(msg')) ]_vars

\* "!group add downstairs ..." extended the group stored as "Downstairs"
C15_Witness ==
    /\ sent /\ reply # <<>> /\ reply[1].kind = "group_updated"
    /\ reply[1].name = "downstairs"
    /\ cfg.groups = <<[k |-> "Downstairs",
                       v |-> <<"switch.fan1", "Kitchen-Light", "light.kitchen">>]>>

(* ------------------------------------------------------------------ *)
(* SpecGroups: dispatch to groups over aliases, ids and catalog names  *)
(* ------------------------------------------------------------------ *)

\* a group of an alias, ids and catalog words with repeats; a group whose
\* members match nothing, named like a catalog entity and like an alias
GroupsInbound ==
    { FromAdmin("!alias add Lamp light.kitchen"),
      FromAdmin("!alias add \"Kitchen Light\" switch.fan1"),
      FromAdmin("!group set Fans fan, Lamp, light.kitchen, switch.fan1, ghost"),
      FromAdmin("!group set \"Kitchen Light\" ghost, temp"),
      FromAdmin("turn on fans"),
      FromAdmin("turn off Kitchen Light") }

GroupsReady ==
    /\ handled < MaxEvents
    /\ \E f \in {FetchFailed("unreachable"), Fetched(HomeCatalog)} : on_ready(f)

GroupsAlias ==
    /\ handled < MaxEvents
    /\ \E m \in GroupsInbound : AliasCommand(m, "ok")

GroupsGroup ==
    /\ handled < MaxEvents
    /\ \E m \in GroupsInbound : GroupCommand(m, "ok")

GroupsTurn ==
    /\ handled < MaxEvents
    /\ \E m \in GroupsInbound : Dispatch(m, {Returned(200), Returned(500)})

NextGroups == GroupsReady \/ GroupsAlias \/ GroupsGroup \/ GroupsTurn

SpecGroups == InitE2E /\ [][NextGroups]_vars

\* the phrase of the last dispatch is the name of a stored group
GroupPhrase ==
    /\ DispatchedOne
    /\ normalize_name(expanded_names[1]) \in DOMAIN group_lookup

\* the entity ids member m stands for: the alias of that name, else m itself
\* if it has a dot, else its single catalog match, if any
MemberIds(m) ==
    IF normalize_name(m) \in DOMAIN alias_lookup
    THEN <<alias_lookup[normalize_name(m)].v>>
    ELSE IF \E i \in 1..Len(m) : SubSeq(m, i, i) = "."
    THEN <<m>>
    ELSE IF resolve_against_ha(m).ent # None
    THEN <<resolve_against_ha(m).ent>>
    ELSE <<>>

RECURSIVE MembersIds(_)
MembersIds(members) ==
    IF members = <<>> THEN <<>>
    ELSE MemberIds(Head(members)) \o MembersIds(Tail(members))

\* xs without the elements that occurred before
FirstOccurrences(xs) ==
    LET keep == {i \in 1..Len(xs) : \A j \in 1..(i - 1) : xs[j] # xs[i]}
        pos(n) == CHOOSE i \in keep : Cardinality({j \in keep : j <= i}) = n
    IN [n \in 1..Cardinality(keep) |-> xs[pos(n)]]

RECURSIVE IdsOfAll(_)
IdsOfAll(names) ==
    IF names = <<>> THEN <<>>
    ELSE resolve_single_target(Head(names)).entity_ids \o IdsOfAll(Tail(names))

\* the failure lines of the last dispatch that report a webhook status
WebhookFailures == SelectSeq(failures, LAMBDA l : l.kind = "webhook_http")

\* the failure lines of the last dispatch that report an unresolved phrase
UnresolvedFailures == SelectSeq(failures, LAMBDA l : l.kind # "webhook_http")

\* C17: a dispatch makes exactly one send_webhook call for each entity id of
\* each expanded phrase, in phrase order then id order, and none for a
\* phrase without ids; each call that returns gives one success line or, on
\* a non-200 status, one failure line, and is not repeated.
C17_OneCallPerEntity ==
    Route(msg) = "turn" =>
        /\ Targets = IdsOfAll(expanded_names)
        /\ Len(successes) + Len(WebhookFailures)
              = IF raised = "" THEN Len(calls) ELSE Len(calls) - 1
        /\ Len(UnresolvedFailures)
              = Len(SelectSeq(expanded_names,
                              LAMBDA n : resolve_single_target(n).entity_ids = <<>>))

\* the entity ids of lines, in order
EidsOf(lines) == [i \in 1..Len(lines) |-> lines[i].eid]

\* the targets whose call is reported by one of lines, in call order
CalledIn(lines) ==
    SelectSeq(Targets, LAMBDA t : \E i \in 1..Len(lines) : lines[i].eid = t)

\* C18: the reply of a dispatch is one message with every success line
\* first and every failure line after them, each kind in the order the
\* outcomes were produced.
C18_SuccessesThenFailures ==
    (Route(msg) = "turn" /\ sent) =>
        /\ reply = successes \o failures
        /\ reply # <<>>
        /\ \A i \in 1..Len(successes) : successes[i].kind = "requested"
        /\ \A i \in 1..Len(failures) : failures[i].kind # "requested"
        /\ EidsOf(successes) = CalledIn(successes)
        /\ EidsOf(WebhookFailures) = CalledIn(WebhookFailures)

\* the first call failed and the second succeeded: the reply shows the
\* second call's line before the first call's
C18_Witness ==
    /\ Route(msg) = "turn" /\ sent
    /\ Len(calls) = 2 /\ Len(reply) = 2
    /\ reply[1].kind = "requested" /\ reply[1].eid = calls[2].target
    /\ reply[2].kind = "webhook_http" /\ reply[2].eid = calls[1].target

(* ------------------------------------------------------------------ *)
(* The lookups and the directory                                       *)
(* ------------------------------------------------------------------ *)

\* lookup maps exactly the non-empty normalized names of d's keys, each to
\* an entry of d with that normalized name
DerivedFrom(lookup, d) ==
    /\ DOMAIN lookup = {normalize_name(d[i].k) : i \in 1..Len(d)} \ {""}
    /\ \A n \in DOMAIN lookup :
          \E i \in 1..Len(d) :
             /\ normalize_name(d[i].k) = n
             /\ lookup[n] = [pretty |-> d[i].k, v |-> d[i].v]

\* C20: between handlers, once on_ready has run, the alias lookup and the
\* group lookup are the maps derived from the directory in memory, also
\* after an admin command whose save failed.
C20_LookupsFollowDirectory ==
    ready => /\ DerivedFrom(alias_lookup, cfg.aliases)
             /\ DerivedFrom(group_lookup, cfg.groups)

(* ------------------------------------------------------------------ *)
(* SpecAsync: on_message coroutines on one event loop                  *)
(* ------------------------------------------------------------------ *)

\* as if the file write and the HTTP requests were awaited too
SuspendsAtIO(pc) == pc \in {"send", "save", "fetch", "index", "call"}

\* the points at which a coroutine hands the loop to the others: the awaits
\* of message.channel.send. save_config, requests.get and requests.post are
\* blocking calls and hold the loop
Suspends(pc) == pc = "send"

\* the branch the coroutine of m takes
KindOf(m) ==
    IF Route(m) \in {"alias", "group", "reload"} /\ ~ is_authorized(m)
    THEN "denied" ELSE Route(m)

\* the first position of a coroutine of that branch
FirstPc(kind) ==
    CASE kind \in {"alias", "group"} -> "mutate"
      [] kind = "reload" -> "fetch"
      [] kind = "turn" -> "expand"
      [] OTHER -> "send"

\* the coroutine on_message(m) when it starts running
NewTask(id, m) ==
    [NoTask EXCEPT !.id = id, !.m = m, !.kind = KindOf(m), !.pc = FirstPc(KindOf(m)),
                   !.lines = <<Note("denied_" \o Route(m))>>,
                   !.dir = cfg, !.cat = <<entities, exact_index>>]

\* the running coroutine goes on as t
Continue(t) == tasks' = [tasks EXCEPT !.cur = t]

\* the running coroutine ends with exception e before any reply
Fail(t, e) ==
    /\ tasks' = [tasks EXCEPT !.cur = NoTask]
    /\ msg' = t.m
    /\ expanded_names' = t.expanded
    /\ successes' = t.acc.successes
    /\ failures' = t.acc.failures
    /\ calls' = t.acc.calls
    /\ reply' = <<>>
    /\ sent' = FALSE
    /\ raised' = e

\* a message arrives: discord.py schedules on_message(m) on the loop
Arrive(m) ==
    /\ ready
    /\ tasks' = [tasks EXCEPT !.queue = Append(@, [id |-> handled + 1, m |-> m])]
    /\ handled' = handled + 1
    /\ UNCHANGED <<ALLOWED_USER_IDS, dirVars, catVars, ready, fetched, outVars>>

\* the loop starts the next scheduled coroutine; one that returns at once
\* (bot author, other channel, no command) is over
Start ==
    /\ tasks.cur = NoTask
    /\ tasks.queue # <<>>
    /\ tasks' = [tasks EXCEPT
                   !.queue = Tail(@),
                   !.cur = IF Route(Head(tasks.queue).m) = "ignored" THEN NoTask
                           ELSE NewTask(Head(tasks.queue).id, Head(tasks.queue).m)]
    /\ UNCHANGED <<ALLOWED_USER_IDS, dirVars, catVars, ready, fetched, outVars, handled>>

\* the handler's outcome on the directory as it is now
AdminResult(t) ==
    IF t.kind = "alias"
    THEN handle_alias_command(Strip(t.m.content), cfg, disk, "ok")
    ELSE handle_group_command(Strip(t.m.content), cfg, disk, "ok")

\* the handler up to its save_config call, or up to its reply when it
\* changes nothing
MutateWith(t, r) ==
    /\ cfg' = r.cfg
    /\ DEFAULT_CONFIG' = IF cfg_shared THEN r.cfg ELSE DEFAULT_CONFIG
    /\ Continue([t EXCEPT !.pc = IF r.rebuild THEN "save" ELSE "send",
                          !.lines = r.reply, !.dir = r.cfg])

Mutate ==
    /\ tasks.cur.pc = "mutate"
    /\ MutateWith(tasks.cur, AdminResult(tasks.cur))
    /\ UNCHANGED <<ALLOWED_USER_IDS, cfg_shared, disk, alias_lookup, group_lookup,
                   catVars, ready, fetched, outVars, handled>>

\* save_config(self.cfg)
Save(o) ==
    /\ tasks.cur.pc = "save"
    /\ disk' = save_config(cfg, disk, o)
    /\ IF o = "ok"
       THEN Continue([tasks.cur EXCEPT !.pc = "rebuild"]) /\ UNCHANGED outVars
       ELSE Fail(tasks.cur, "OSError")
    /\ UNCHANGED <<ALLOWED_USER_IDS, DEFAULT_CONFIG, cfg, cfg_shared, alias_lookup,
                   group_lookup, catVars, ready, fetched, handled>>

\* self.rebuild_lookups_from_cfg()
Rebuild ==
    /\ tasks.cur.pc = "rebuild"
    /\ alias_lookup' = rebuild_alias_lookup(cfg)
    /\ group_lookup' = rebuild_group_lookup(cfg)
    /\ Continue([tasks.cur EXCEPT !.pc = "send"])
    /\ UNCHANGED <<ALLOWED_USER_IDS, DEFAULT_CONFIG, cfg, cfg_shared, disk, catVars,
                   ready, fetched, outVars, handled>>

\* build_entity_index: requests.get, raise_for_status, resp.json
Fetch(fetch) ==
    /\ tasks.cur.pc = "fetch"
    /\ fetched' = fetch
    /\ Continue(IF fetch.kind = "ok"
                THEN [tasks.cur EXCEPT !.pc = "clear", !.data = fetch.data]
                ELSE [tasks.cur EXCEPT !.pc = "send",
                                       !.lines = <<Note("reload_failed")>>])
    /\ UNCHANGED <<ALLOWED_USER_IDS, dirVars, catVars, ready, outVars, handled>>

\* build_entity_index: self.entities = [], self.exact_index = {}
Clear ==
    /\ tasks.cur.pc = "clear"
    /\ entities' = <<>>
    /\ exact_index' = <<>>
    /\ Continue(IF tasks.cur.data = <<>>
                THEN [tasks.cur EXCEPT !.pc = "send", !.lines = <<Note("reload_ok")>>]
                ELSE [tasks.cur EXCEPT !.pc = "index"])
    /\ UNCHANGED <<ALLOWED_USER_IDS, dirVars, ready, fetched, outVars, handled>>

\* build_entity_index: one turn of the loop over data
IndexItem(t, item) ==
    IF ItemRaises(item)
    THEN /\ Continue([t EXCEPT !.pc = "send", !.lines = <<Note("reload_failed")>>])
         /\ UNCHANGED catVars
    ELSE /\ entities' = Append(entities, EntOf(item))
         /\ exact_index' = IndexWith(exact_index, EntOf(item))
         /\ Continue(IF Tail(t.data) = <<>>
                     THEN [t EXCEPT !.pc = "send", !.data = <<>>,
                                    !.lines = <<Note("reload_ok")>>]
                     ELSE [t EXCEPT !.data = Tail(@)])

Index ==
    /\ tasks.cur.pc = "index"
    /\ IndexItem(tasks.cur, Head(tasks.cur.data))
    /\ UNCHANGED <<ALLOWED_USER_IDS, dirVars, ready, fetched, outVars, handled>>

\* on_message: the turn regex and expand_numbers_suffix
Expand ==
    /\ tasks.cur.pc = "expand"
    /\ Continue([tasks.cur EXCEPT
                    !.pc = "resolve",
                    !.expanded = expand_numbers_suffix(
                                     TurnMatch(LowerOf(tasks.cur.m)).target_raw),
                    !.names = expand_numbers_suffix(
                                  TurnMatch(LowerOf(tasks.cur.m)).target_raw)])
    /\ UNCHANGED <<ALLOWED_USER_IDS, dirVars, catVars, ready, fetched, outVars, handled>>

\* the coroutine after the loop body is through with the current name
AfterName(t) ==
    IF t.names = <<>>
    THEN [t EXCEPT !.pc = "send", !.lines = ReplyOf(t.acc.successes \o t.acc.failures)]
    ELSE [t EXCEPT !.pc = "resolve"]

\* the dispatch loop: resolve_single_target(name) and the failure line of a
\* name without entity ids
ResolveWith(t, plan) ==
    Continue(IF plan[1].call
             THEN [t EXCEPT !.pc = "call", !.plan = plan, !.names = Tail(@)]
             ELSE AfterName([t EXCEPT !.names = Tail(@),
                                       !.acc.failures = Append(@, plan[1].line)]))

Resolve ==
    /\ tasks.cur.pc = "resolve"
    /\ ResolveWith(tasks.cur, PlanOf(Head(tasks.cur.names)))
    /\ UNCHANGED <<ALLOWED_USER_IDS, dirVars, catVars, ready, fetched, outVars, handled>>

\* the locals after send_webhook for step st returned status_code
Returns(acc, st, cmd, user, status_code) ==
    [acc EXCEPT
       !.calls = Append(@, [target |-> st.eid, command |-> cmd, user |-> user]),
       !.successes = IF status_code = 200
                     THEN Append(@, Line("requested", st.name, st.eid, 200, <<>>))
                     ELSE @,
       !.failures = IF status_code = 200 THEN @
                    ELSE Append(@, Line("webhook_http", st.name, st.eid, status_code, <<>>))]

\* the locals after send_webhook for step st raised
Raises(acc, st, cmd, user) ==
    [acc EXCEPT
       !.calls = Append(@, [target |-> st.eid, command |-> cmd, user |-> user]),
       !.raised = "RequestException"]

\* the command word of the dispatch of m
CommandOf(m) ==
    IF TurnMatch(LowerOf(m)).action_text = "turn on" THEN "turn_on" ELSE "turn_off"

\* the dispatch loop: one send_webhook call
CallWith(t, out) ==
    IF out.raises
    THEN Fail([t EXCEPT !.acc = Raises(@, t.plan[1], CommandOf(t.m), t.m.author)],
              "RequestException")
    ELSE /\ UNCHANGED outVars
         /\ Continue(
              IF Tail(t.plan) # <<>>
              THEN [t EXCEPT !.plan = Tail(@),
                             !.acc = Returns(@, t.plan[1], CommandOf(t.m), t.m.author,
                                             out.status_code)]
              ELSE AfterName(
                     [t EXCEPT !.plan = <<>>,
                               !.acc = Returns(@, t.plan[1], CommandOf(t.m), t.m.author,
                                               out.status_code)]))

Call(out) ==
    /\ tasks.cur.pc = "call"
    /\ CallWith(tasks.cur, out)
    /\ UNCHANGED <<ALLOWED_USER_IDS, dirVars, catVars, ready, fetched, handled>>

\* the running coroutine reaches an await and is suspended
Suspend ==
    /\ tasks.cur # NoTask
    /\ Suspends(tasks.cur.pc)
    /\ tasks' = [tasks EXCEPT !.cur = NoTask, !.waiting = @ \cup {tasks.cur}]
    /\ UNCHANGED <<ALLOWED_USER_IDS, dirVars, catVars, ready, fetched, outVars, handled>>

\* what t awaited is done: a coroutine awaiting its send has replied and
\* returns, any other goes on from where it was suspended
Resume(t) ==
    /\ tasks.cur = NoTask
    /\ t \in tasks.waiting
    /\ IF t.pc = "send"
       THEN /\ tasks' = [tasks EXCEPT !.waiting = @ \ {t}]
            /\ msg' = t.m
            /\ expanded_names' = t.expanded
            /\ successes' = t.acc.successes
            /\ failures' = t.acc.failures
            /\ calls' = t.acc.calls
            /\ reply' = t.lines
            /\ sent' = TRUE
            /\ raised' = ""
       ELSE /\ tasks' = [tasks EXCEPT !.waiting = @ \ {t}, !.cur = t]
            /\ UNCHANGED outVars
    /\ UNCHANGED <<ALLOWED_USER_IDS, dirVars, catVars, ready, fetched, handled>>

\* a backend with two fans, and the same backend after the second is gone
TwoFans == << HAItem("switch.fan1", "Fan 1"), HAItem("switch.fan2", "Fan 2") >>
OneFan == << HAItem("switch.fan1", "Fan 1") >>

\* an alias, a group over it, a refresh and a dispatch to two names
AsyncInbound ==
    { FromAdmin("!alias add Lamp switch.fan1"),
      FromAdmin("!group set Fans Lamp"),
      FromAdmin("!reload"),
      FromAdmin("turn on fan 1, 2") }

AsyncReady ==
    /\ handled < MaxEvents
    /\ ~ ready
    /\ \E f \in {FetchFailed("unreachable"), Fetched(TwoFans)} : on_ready(f)

AsyncArrive ==
    /\ handled < MaxEvents
    /\ \E m \in AsyncInbound : Arrive(m)

AsyncSave == \E o \in {"ok", "write_error"} : Save(o)

AsyncFetch == \E f \in {FetchFailed("unreachable"), Fetched(OneFan)} : Fetch(f)

AsyncCall == \E out \in WebhookOutcomes : Call(out)

AsyncResume == \E t \in tasks.waiting : Resume(t)

NextAsync ==
    \/ AsyncReady \/ AsyncArrive \/ Start \/ Mutate \/ AsyncSave \/ Rebuild
    \/ AsyncFetch \/ Clear \/ Index \/ Expand \/ Resolve \/ AsyncCall
    \/ Suspend \/ AsyncResume

SpecAsync == InitE2E /\ [][NextAsync]_vars

\* the coroutines that have started and not ended, after the step
StartedNext == (IF tasks'.cur = NoTask THEN {} ELSE {tasks'.cur}) \cup tasks'.waiting

\* t is within its state-touching work: it has not reached its reply
Working(t) == t # NoTask /\ t.pc # "send"

\* the running coroutine, within its work, is still the running one after
\* the step, or it has ended: no other coroutine runs in between
RunsToCompletion ==
    Working(tasks.cur)
    => /\ tasks'.cur # NoTask => tasks'.cur.id = tasks.cur.id
       /\ \A t \in tasks'.waiting : t.id # tasks.cur.id

\* every dispatch within its work has the catalog it started with
SeesWholeCatalog ==
    \A t \in StartedNext :
        (t.kind = "turn" /\ Working(t)) => <<entities', exact_index'>> = t.cat

\* an admin command that reaches its reply leaves the directory its own
\* handler produced, the lookups rebuilt from it, and after a save the file
\* holding it
NoLostUpdate ==
    (/\ Working(tasks.cur)
     /\ tasks.cur.kind \in {"alias", "group"}
     /\ tasks'.cur # NoTask
     /\ tasks'.cur.pc = "send")
    => /\ cfg' = tasks'.cur.dir
       /\ tasks.cur.pc = "rebuild"
          => /\ disk' = FileOf(cfg')
             /\ alias_lookup' = rebuild_alias_lookup(cfg')
             /\ group_lookup' = rebuild_group_lookup(cfg')

\* C19: with several messages pending, handlers interleave only at their
\* reply sends: the work of a handler before its reply (mutate, save and
\* rebuild; a catalog refresh; expand, resolve and the calls of a dispatch)
\* runs without another handler in between, so a dispatch at work never
\* has a catalog a refresh changed under it, and no directory update is
\* lost.
C19_InterleaveOnlyAtSends ==
    [][RunsToCompletion /\ SeesWholeCatalog /\ NoLostUpdate]_vars

\* a dispatch has made its first call and has the second still to make,
\* while a refresh is pending and an admin command that changed the
\* directory is suspended at its reply
C19_Witness ==
    /\ tasks.cur.kind = "turn"
    /\ tasks.cur.pc = "call"
    /\ Len(tasks.cur.acc.calls) = 1
    /\ \E i \in 1..Len(tasks.queue) : Route(tasks.queue[i].m) = "reload"
    /\ \E t \in tasks.waiting : t.kind = "alias" /\ t.pc = "send" /\ t.dir # EmptyCfg

(* ------------------------------------------------------------------ *)
(* SpecReply: dispatches that find little or nothing to act on         *)
(* ------------------------------------------------------------------ *)

\* a backend with two kitchen lights, a fan and a kitchen sensor
SpotCatalog ==
    << HAItem("light.kitchen", "Kitchen Light"),
       HAItem("light.kitchen_spot", "Kitchen Spot"),
       HAItem("switch.fan1", "Fan 1"),
       HAItem("sensor.kitchen_temp", "Kitchen Temp") >>

\* a group whose members resolve to nothing, and phrases that are a group
\* of no entities, a range without numbers, a list, an ambiguous word,
\* punctuation only and an unknown word
ReplyInbound ==
    { FromAdmin("!group set Void ghost"),
      FromAdmin("turn on void"),
      FromAdmin("turn on fan 3-1"),
      FromAdmin("turn off fan 1, 2"),
      FromAdmin("turn on kitchen"),
      FromAdmin("turn on !!!"),
      FromAdmin("turn off ghost and") }

ReplyReady ==
    /\ handled < MaxEvents
    /\ \E f \in {FetchFailed("unreachable"), Fetched(SpotCatalog)} : on_ready(f)

ReplyGroup ==
    /\ handled < MaxEvents
    /\ \E m \in ReplyInbound : GroupCommand(m, "ok")

ReplyTurn ==
    /\ handled < MaxEvents
    /\ \E m \in ReplyInbound : Dispatch(m, WebhookOutcomes)

NextReply == ReplyReady \/ ReplyGroup \/ ReplyTurn

SpecReply == InitE2E /\ [][NextReply]_vars

\* the lines the loop owes for names: one per entity id, one for a name
\* without ids
RECURSIVE LinesDue(_)
LinesDue(names) ==
    IF names = <<>> THEN 0
    ELSE (IF resolve_single_target(Head(names)).entity_ids = <<>> THEN 1
          ELSE Len(resolve_single_target(Head(names)).entity_ids))
         + LinesDue(Tail(names))

\* C21: a dispatch that runs to completion (no call raised) has at least
\* one expanded phrase and records, for each phrase, one failure line when
\* it has no entity ids and otherwise one line per entity id; so it has at
\* least one line and its reply is never the "Nothing to do" note.
C21_NeverNothingToDo ==
    (Route(msg) = "turn" /\ raised = "") =>
        /\ sent
        /\ Len(expanded_names) >= 1
        /\ Len(successes) + Len(failures) = LinesDue(expanded_names)
        /\ Len(successes) + Len(failures) >= 1
        /\ \A i \in 1..Len(reply) : reply[i].kind # "nothing_to_do"

\* the dispatch of a range that holds no number is through: the phrase
\* stayed as typed and has its one line
C21_Witness ==
    /\ LowerOf(msg) = "turn on fan 3-1"
    /\ sent
    /\ expanded_names = <<"fan 3-1">>
    /\ Len(successes) + Len(failures) = 1

====
